---- MODULE Spec2Model ----
(***************************************************************************)
(* A model of the statistics engine of brunch: the sample set `Abacus`     *)
(* (src/src/math.rs), the run summary `Stats` built from it                *)
(* (src/src/stats/mod.rs) and the run-to-run comparison `is_deviant`.      *)
(*                                                                         *)
(* Numbers.  An f64 sample is carried as an integer count of quarter ticks *)
(* (a Duration of d ticks is the value d * Unit), so that the midpoints    *)
(* and the 1.5 * iqr fences the code computes are exact integers.  Values  *)
(* that are quotients (a mean, a relative change, a symmetry score) are    *)
(* exact rationals [n, d]; a standard deviation is carried as the exact    *)
(* square root of a rational, [sq |-> variance].  No rounding is modelled: *)
(* the model is the code in exact real arithmetic.                         *)
(***************************************************************************)
EXTENDS Integers, Sequences, FiniteSets, TLC

----------------------------------------------------------------------------
(* Bounds of the model. *)

\* Largest sample, in ticks, of the small sample sets.
MaxVal == 8
\* Longest run of one repeated value in the small sample sets.
MaxRun == 8
\* phi ranges over the grid 0/PhiDen, 1/PhiDen, ..., PhiDen/PhiDen.
PhiDen == 10
\* prune_outliers is called at most this often on one sample set.
MaxPrunes == 2

\* lib.rs: the minimum number of samples.
MIN_SAMPLES == 100

\* Duration::as_secs_f64: one tick of a Duration, as an f64 of the model.
Unit == 4

\* f64::INFINITY and f64::NAN, placed where f64::total_cmp orders them:
\* above every finite value.  They never enter arithmetic.
INFINITY == 1000000
NAN == 1000001

\* f64::MIN_POSITIVE, the smallest positive normal f64: it lies below every
\* Duration of one tick or more.  The one positive value below it,
\* SUBNORMAL, stands for the subnormal numbers.
MIN_POSITIVE == 2
SUBNORMAL == 1

\* -0.0, which f64::total_cmp orders just below +0.0.
NEG_ZERO == -1

----------------------------------------------------------------------------
(* Option<T>: None is the empty sequence, Some(x) the sequence <<x>>. *)

None == << >>
Some(x) == << x >>

----------------------------------------------------------------------------
(* Exact rationals, kept in lowest terms with a positive denominator, so   *)
(* that equal numbers are equal records.  A zero denominator is the f64    *)
(* result of a division by zero: [n |-> 1, d |-> 0] is +inf, [n |-> 0,     *)
(* d |-> 0] is NaN.                                                        *)

Abs(x) == IF x < 0 THEN -x ELSE x

Sign(x) == IF x < 0 THEN -1 ELSE IF x = 0 THEN 0 ELSE 1

RECURSIVE GCD(_, _)
GCD(a, b) == IF b = 0 THEN a ELSE GCD(b, a % b)

Q(n, d) ==
    IF d = 0 THEN [n |-> Sign(n), d |-> 0]
    ELSE LET g == GCD(Abs(n), Abs(d))
         IN  [n |-> Sign(d) * (n \div g), d |-> Abs(d) \div g]

FromF(x) == [n |-> x, d |-> 1]

QAdd(a, b) ==
    LET g == GCD(a.d, b.d)
        l == (a.d \div g) * b.d
    IN  Q(a.n * (l \div a.d) + b.n * (l \div b.d), l)

QNeg(a) == [n |-> -a.n, d |-> a.d]

QSub(a, b) == QAdd(a, QNeg(b))

QMul(a, b) == Q(a.n * b.n, a.d * b.d)

QDiv(a, b) == Q(a.n * b.d, a.d * b.n)

QLt(a, b) == a.n * b.d < b.n * a.d

QLe(a, b) == a.n * b.d <= b.n * a.d

QIsFinite(a) == a.d # 0

\* f64::round followed by `as usize`, for a non-negative rational: halves
\* round away from zero.
round_usize(a) == (2 * a.n + a.d) \div (2 * a.d)

\* f64::sqrt, exact: the value is carried as the rational under the root.
Sqrt(a) == [sq |-> a]

\* 0.0 < sqrt(a)
RootIsPositive(r) == r.sq.n > 0

\* sqrt(a).is_finite(): the root of a negative number is NaN.
RootIsFinite(r) == QIsFinite(r.sq) /\ r.sq.n >= 0

\* sqrt(a) >= 0.0 under total_cmp.
RootGeZero(r) == r.sq.n >= 0

----------------------------------------------------------------------------
(* src/src/util.rs: the float comparisons, all by f64::total_cmp. *)

float_lt(a, b) == a < b

float_le(a, b) == a <= b

float_eq(a, b) == a = b

float_gt(a, b) == a > b

----------------------------------------------------------------------------
(* src/src/math.rs: Abacus.  A value of the struct is the record           *)
(* [set, len, unique, total].                                              *)

RECURSIVE SumRange(_, _, _)
\* The sum of s[lo..hi], halving the range (addition is exact, so the order
\* of the additions does not matter).
SumRange(s, lo, hi) ==
    IF lo > hi THEN 0
    ELSE IF lo = hi THEN s[lo]
    ELSE LET mid == (lo + hi) \div 2
         IN  SumRange(s, lo, mid) + SumRange(s, mid + 1, hi)

\* Iterator::sum
Sum(s) == SumRange(s, 1, Len(s))

\* Vec::dedup_by keeps the first element of every run of equal neighbours.
count_unique(src) ==
    Cardinality({i \in 1..Len(src) : i = 1 \/ ~float_eq(src[i], src[i - 1])})

is_normal(f) ==
    /\ f # 0 /\ f # NEG_ZERO
    /\ Abs(f) >= MIN_POSITIVE
    /\ f # INFINITY /\ f # NAN /\ f # -INFINITY /\ f # -NAN

\* retain without the arm that keeps a zero.
retain_bug(f) == f > 0 /\ is_normal(f)

\* retain with is_finite in the place of is_normal.
retain_finite(f) ==
    IF f = 0 THEN TRUE
    ELSE IF f > 0 /\ f # INFINITY /\ f # NAN THEN TRUE
    ELSE FALSE

\* The closure of set.retain in From<Vec<f64>>.
retain(f) ==
    IF f = 0 THEN TRUE
    ELSE IF f > 0 /\ is_normal(f) THEN TRUE
    ELSE FALSE

\* totals with the distinct values counted as the values.
totals_all_unique(set) ==
    [set |-> set, len |-> Len(set), unique |-> Len(set), total |-> Sum(set)]

\* "Pre-calculate some useful totals": the struct around a sorted set.
totals(set) ==
    [set |-> set, len |-> Len(set), unique |-> count_unique(set),
     total |-> Sum(set)]

\* impl From<Vec<f64>> for Abacus
AbacusFromF64(src) ==
    totals(SortSeq(SelectSeq(src, retain), LAMBDA a, b : float_lt(a, b)))

as_secs_f64(d) == d * Unit

\* impl From<Vec<Duration>> for Abacus
AbacusFrom(src) == AbacusFromF64([i \in 1..Len(src) |-> as_secs_f64(src[i])])

is_empty(a) == a.len = 0

f_len(a) == FromF(a.len)

\* mean with the sum divided by the number of distinct values.
mean_by_unique(a) ==
    IF is_empty(a) THEN FromF(0)
    ELSE IF a.unique = 1 THEN FromF(a.set[1])
    ELSE QDiv(FromF(a.total), FromF(a.unique))

mean(a) ==
    IF is_empty(a) THEN FromF(0)
    ELSE IF a.unique = 1 THEN FromF(a.set[1])
    ELSE QDiv(FromF(a.total), f_len(a))

RECURSIVE QSumRange(_, _, _)
\* Sum, for a sequence of rationals.
QSumRange(s, lo, hi) ==
    IF lo > hi THEN FromF(0)
    ELSE IF lo = hi THEN s[lo]
    ELSE LET mid == (lo + hi) \div 2
         IN  QAdd(QSumRange(s, lo, mid), QSumRange(s, mid + 1, hi))

deviation(a) ==
    IF is_empty(a) \/ a.unique = 1 THEN Sqrt(FromF(0))
    ELSE LET m == mean(a)
             squares == [i \in 1..Len(a.set) |->
                            LET x == QSub(m, FromF(a.set[i])) IN QMul(x, x)]
             sum == QSumRange(squares, 1, Len(squares))
         IN  Sqrt(QDiv(sum, f_len(a)))

max(a) == IF is_empty(a) THEN 0 ELSE a.set[a.len]

min(a) == IF is_empty(a) THEN 0 ELSE a.set[1]

\* The least element of a non-empty set of indices.
First(S) == CHOOSE i \in S : \A j \in S : i <= j

\* rev().take_while(n > num).count(): the length of the longest suffix of
\* entries above num.  k counts from the back: k = 1 is the last entry.
count_above(a, num) ==
    LET n == Len(a.set)
        stop == {k \in 1..n : ~float_gt(a.set[n + 1 - k], num)}
    IN  IF stop = {} THEN n ELSE First(stop) - 1

\* take_while(n < num).count(): the length of the longest prefix of entries
\* below num.
count_below(a, num) ==
    LET stop == {i \in 1..Len(a.set) : ~float_lt(a.set[i], num)}
    IN  IF stop = {} THEN Len(a.set) ELSE First(stop) - 1

\* position() is 0-based in the code and 1-based here.
step_down(a, num) ==
    LET hits == {i \in 1..Len(a.set) : float_eq(a.set[i], num)}
    IN  IF hits = {} THEN None
        ELSE LET pos == First(hits)
             IN  IF 1 < pos THEN Some(a.set[pos - 1]) ELSE None

\* rposition() searches from the back: k = 1 is the last entry.
step_up(a, num) ==
    LET n == Len(a.set)
        hits == {k \in 1..n : float_eq(a.set[n + 1 - k], num)}
    IN  IF hits = {} THEN None
        ELSE LET pos == n + 1 - First(hits)
             IN  IF pos < a.len THEN Some(a.set[pos + 1]) ELSE None

\* dactyl::int_div_float(below + above, 2).unwrap_or_default()
quantile_diff(below, above, ref_below, ref_above) ==
    Q(Abs(below - ref_below) + Abs(above - ref_above), 2)

score(a, v, target_below, target_above) ==
    quantile_diff(count_below(a, v), count_above(a, v),
                  target_below, target_above)

\* walk_down that takes its first step whether or not the score improves.
walk_down_blind(a, last, best, target_below, target_above) ==
    IF step_down(a, last) = None THEN best
    ELSE [out |-> step_down(a, last)[1],
          diff |-> score(a, step_down(a, last)[1], target_below, target_above)]

RECURSIVE walk_down(_, _, _, _, _)
\* The first `while let` of quantile; best is the pair [out, diff].
walk_down(a, last, best, target_below, target_above) ==
    LET other == step_down(a, last)
    IN  IF other = None THEN best
        ELSE LET diff2 == score(a, other[1], target_below, target_above)
             IN  IF QLt(diff2, best.diff)
                 THEN walk_down(a, other[1], [out |-> other[1], diff |-> diff2],
                                target_below, target_above)
                 ELSE best

\* walk_up that also moves to a value whose score is the same.
walk_up_ties(a, last, best, target_below, target_above) ==
    IF step_up(a, last) = None THEN best
    ELSE IF QLe(score(a, step_up(a, last)[1], target_below, target_above),
                best.diff)
    THEN [out |-> step_up(a, last)[1],
          diff |-> score(a, step_up(a, last)[1], target_below, target_above)]
    ELSE best

\* walk_up that takes its first step whether or not the score improves.
walk_up_blind(a, last, best, target_below, target_above) ==
    IF step_up(a, last) = None THEN best
    ELSE [out |-> step_up(a, last)[1],
          diff |-> score(a, step_up(a, last)[1], target_below, target_above)]

RECURSIVE walk_up(_, _, _, _, _)
\* The second `while let` of quantile.
walk_up(a, last, best, target_below, target_above) ==
    LET other == step_up(a, last)
    IN  IF other = None THEN best
        ELSE LET diff2 == score(a, other[1], target_below, target_above)
             IN  IF QLt(diff2, best.diff)
                 THEN walk_up(a, other[1], [out |-> other[1], diff |-> diff2],
                              target_below, target_above)
                 ELSE best

\* Index of the code's set[target] (0-based) in the 1-based sequence.
At(a, target) == a.set[target + 1]

\* The innermost else of quantile: the search around set[target].
hill_climb(a, target) ==
    LET target_below == target
        target_above == IF a.len >= target + 1 THEN a.len - (target + 1) ELSE 0
        first == [out |-> At(a, target),
                  diff |-> score(a, At(a, target), target_below, target_above)]
        down == walk_down(a, At(a, target), first, target_below, target_above)
        up == walk_up(a, At(a, target), down, target_below, target_above)
    IN  up.out

\* quantile with the two clamps of phi exchanged.
quantile_swapped(a, phi) ==
    IF is_empty(a) THEN 0
    ELSE IF QLe(phi, FromF(0)) THEN max(a)
    ELSE IF QLe(FromF(1), phi) THEN min(a)
    ELSE IF a.len = 1 \/ a.unique = 1 THEN a.set[1]
    ELSE LET target == round_usize(QMul(phi, f_len(a)))
         IN  IF target = 0 THEN min(a)
             ELSE IF target >= a.len - 1 THEN max(a)
             ELSE hill_climb(a, target)

quantile(a, phi) ==
    IF is_empty(a) THEN 0
    ELSE IF QLe(phi, FromF(0)) THEN min(a)
    ELSE IF QLe(FromF(1), phi) THEN max(a)
    ELSE IF a.len = 1 \/ a.unique = 1 THEN a.set[1]
    ELSE LET target == round_usize(QMul(phi, f_len(a)))
         IN  IF target = 0 THEN min(a)
             ELSE IF target >= a.len - 1 THEN max(a)
             ELSE hill_climb(a, target)

\* smoothed with the two midpoints exchanged.
smoothed_swapped(q, lo, hi) ==
    IF q - lo >= (hi - q) * 2 THEN (hi + q) \div 2
    ELSE IF hi - q >= (q - lo) * 2 THEN (lo + q) \div 2
    ELSE 0

\* The last if / else if / else of ideal_quantile: the quantile moved half
\* way to the neighbour that is at least twice as far as the other one.
\* The parameters are the locals quantile, lo and hi of the code.
smoothed(q, lo, hi) ==
    IF q - lo >= (hi - q) * 2 THEN (lo + q) \div 2
    ELSE IF hi - q >= (q - lo) * 2 THEN (hi + q) \div 2
    ELSE 0

\* idealized with lo and hi taken two epsilon away from phi.
idealized_wide(a, phi, epsilon, q) ==
    IF \/ q = 0
       \/ QLe(phi, QMul(Q(3, 2), epsilon))
       \/ QLe(QSub(FromF(1), QMul(Q(3, 2), epsilon)), phi)
    THEN q
    ELSE smoothed(q, quantile(a, QSub(phi, QMul(FromF(2), epsilon))),
                  quantile(a, QAdd(phi, QMul(FromF(2), epsilon))))

\* idealized with the boundary test at one epsilon instead of 1.5.
idealized_narrow(a, phi, epsilon, q) ==
    IF \/ q = 0
       \/ QLe(phi, epsilon)
       \/ QLe(QSub(FromF(1), epsilon), phi)
    THEN q
    ELSE smoothed(q, quantile(a, QSub(phi, epsilon)),
                  quantile(a, QAdd(phi, epsilon)))

\* The innermost else of ideal_quantile, with its locals epsilon and
\* quantile as parameters.
idealized(a, phi, epsilon, q) ==
    IF \/ q = 0
       \/ QLe(phi, QMul(Q(3, 2), epsilon))
       \/ QLe(QSub(FromF(1), QMul(Q(3, 2), epsilon)), phi)
    THEN q
    ELSE smoothed(q, quantile(a, QSub(phi, epsilon)),
                  quantile(a, QAdd(phi, epsilon)))

ideal_quantile(a, phi) ==
    IF is_empty(a) THEN 0
    ELSE IF QLe(phi, FromF(0)) THEN min(a)
    ELSE IF QLe(FromF(1), phi) THEN max(a)
    ELSE IF a.len = 1 \/ a.unique = 1 THEN a.set[1]
    ELSE idealized(a, phi, QDiv(FromF(1), QMul(FromF(2), f_len(a))),
                   quantile(a, phi))

\* retain_within with both boundaries excluded.
retain_within_strict(set, lo, hi) ==
    SelectSeq(set, LAMBDA s : float_lt(lo, s) /\ float_lt(s, hi))

\* The retain of prune_outliers, between the boundaries lo and hi.
retain_within(set, lo, hi) ==
    SelectSeq(set, LAMBDA s : float_le(lo, s) /\ float_le(s, hi))

\* iqr.mul_add(-1.5, q1) and iqr.mul_add(1.5, q3), with iqr = q3 - q1.
fence_lo(q1, q3) == q1 - (3 * (q3 - q1)) \div 2

fence_hi(q1, q3) == q3 + (3 * (q3 - q1)) \div 2

\* "Recalculate totals if the length changed."
recalculate(a, set) ==
    IF Len(set) # a.len THEN totals(set) ELSE [a EXCEPT !.set = set]

\* prune_outliers without the recalculation of the totals.
prune_outliers_stale(a) ==
    IF 1 < a.unique /\ RootIsPositive(deviation(a))
    THEN [a EXCEPT !.set = retain_within(a.set,
              fence_lo(ideal_quantile(a, Q(5, 100)), ideal_quantile(a, Q(95, 100))),
              fence_hi(ideal_quantile(a, Q(5, 100)), ideal_quantile(a, Q(95, 100))))]
    ELSE a

\* prune_outliers with q1 and q3 exchanged.
prune_outliers_inverted(a) ==
    IF 1 < a.unique /\ RootIsPositive(deviation(a))
    THEN recalculate(a, retain_within(a.set,
              fence_lo(ideal_quantile(a, Q(95, 100)), ideal_quantile(a, Q(5, 100))),
              fence_hi(ideal_quantile(a, Q(95, 100)), ideal_quantile(a, Q(5, 100)))))
    ELSE a

\* q1 and q3 are computed once in the code; here each boundary is written
\* out from them.
prune_outliers(a) ==
    IF 1 < a.unique /\ RootIsPositive(deviation(a))
    THEN recalculate(a, retain_within(a.set,
              fence_lo(ideal_quantile(a, Q(5, 100)), ideal_quantile(a, Q(95, 100))),
              fence_hi(ideal_quantile(a, Q(5, 100)), ideal_quantile(a, Q(95, 100)))))
    ELSE a

----------------------------------------------------------------------------
(* src/src/stats/mod.rs: Stats.  A Result<Stats, BrunchError> is a record  *)
(* with a kind: "Ok" carries the four fields of the struct, "TooSmall" the *)
(* number of samples, "TooWild" and "Overflow" nothing.                    *)

Ok(st) == [kind |-> "Ok", total |-> st.total, valid |-> st.valid,
           deviation |-> st.deviation, mean |-> st.mean]

TooSmall(n) == [kind |-> "TooSmall", n |-> n]

TooWild == [kind |-> "TooWild"]

Overflow == [kind |-> "Overflow"]

is_valid(st) ==
    /\ MIN_SAMPLES <= st.valid
    /\ st.valid <= st.total
    /\ RootIsFinite(st.deviation)
    /\ RootGeZero(st.deviation)
    /\ QIsFinite(st.mean)
    /\ QLe(FromF(0), st.mean)

\* u32::saturating_from(usize): every list of the model is far shorter than
\* u32::MAX, where the conversion starts to saturate.
saturating_from(n) == n

\* try_from with the TooSmall test made after the crunch.
try_from_late(samples) ==
    LET total == saturating_from(Len(samples))
        calc == prune_outliers(AbacusFrom(samples))
        valid == saturating_from(calc.len)
    IN  IF valid = 0 THEN TooWild
        ELSE IF valid < MIN_SAMPLES THEN TooWild
        ELSE IF total < MIN_SAMPLES THEN TooSmall(total)
        ELSE LET out == [total |-> total, valid |-> valid,
                         deviation |-> deviation(calc), mean |-> mean(calc)]
             IN  IF is_valid(out) THEN Ok(out) ELSE Overflow

\* try_from without the test of valid against MIN_SAMPLES.
try_from_no_wild(samples) ==
    LET total == saturating_from(Len(samples))
    IN  IF total = 0 THEN TooSmall(total)
        ELSE IF total < MIN_SAMPLES THEN TooSmall(total)
        ELSE LET calc == prune_outliers(AbacusFrom(samples))
                 valid == saturating_from(calc.len)
             IN  IF valid = 0 THEN TooWild
                 ELSE LET out == [total |-> total, valid |-> valid,
                                  deviation |-> deviation(calc),
                                  mean |-> mean(calc)]
                      IN  IF is_valid(out) THEN Ok(out) ELSE Overflow

\* try_from that hands out what it computed without validating it.
try_from_unchecked(samples) ==
    LET total == saturating_from(Len(samples))
    IN  IF total = 0 THEN TooSmall(total)
        ELSE IF total < MIN_SAMPLES THEN TooSmall(total)
        ELSE LET calc == prune_outliers(AbacusFrom(samples))
                 valid == saturating_from(calc.len)
             IN  Ok([total |-> total, valid |-> valid,
                     deviation |-> deviation(calc), mean |-> mean(calc)])

\* "Done!": the struct try_from has built, handed out if it is valid.
done(out) == IF is_valid(out) THEN Ok(out) ELSE Overflow

\* try_from after "Crunch!": calc is the pruned Abacus.
crunched(total, calc) ==
    IF saturating_from(calc.len) = 0 THEN TooWild
    ELSE IF saturating_from(calc.len) < MIN_SAMPLES THEN TooWild
    ELSE done([total |-> total, valid |-> saturating_from(calc.len),
               deviation |-> deviation(calc), mean |-> mean(calc)])

\* impl TryFrom<Vec<Duration>> for Stats
try_from(samples) ==
    IF saturating_from(Len(samples)) = 0
    THEN TooSmall(saturating_from(Len(samples)))
    ELSE IF saturating_from(Len(samples)) < MIN_SAMPLES
    THEN TooSmall(saturating_from(Len(samples)))
    ELSE crunched(saturating_from(Len(samples)),
                  prune_outliers(AbacusFrom(samples)))

\* t < k * sqrt(r.sq), exactly, for a rational t and an integer k.
RootLt(t, k, r) ==
    LET t2 == QMul(t, t)
        k2s == QMul(FromF(k * k), r.sq)
    IN  IF k >= 0 THEN t.n < 0 \/ QLt(t2, k2s)
        ELSE t.n < 0 /\ QLt(k2s, t2)

\* t > k * sqrt(r.sq), exactly.
RootGt(t, k, r) ==
    LET t2 == QMul(t, t)
        k2s == QMul(FromF(k * k), r.sq)
    IN  IF k >= 0 THEN t.n > 0 /\ QLt(k2s, t2)
        ELSE t.n > 0 \/ QLt(t2, k2s)

\* is_deviant with the envelope's two boundaries counted as outside.
is_deviant_inclusive(self, other) ==
    LET t == QSub(other.mean, self.mean)
    IN  IF ~RootGt(t, -2, self.deviation) \/ ~RootLt(t, 2, self.deviation)
        THEN IF QLt(self.mean, other.mean)
             THEN Some([color |-> 92, sign |-> "-",
                        ratio |-> QDiv(QSub(other.mean, self.mean), other.mean)])
             ELSE IF self.mean = other.mean THEN None
             ELSE Some([color |-> 91, sign |-> "+",
                        ratio |-> QDiv(QSub(self.mean, other.mean), other.mean)])
        ELSE None

\* is_deviant with the change taken relative to this run's mean.
is_deviant_own_mean(self, other) ==
    LET t == QSub(other.mean, self.mean)
    IN  IF RootLt(t, -2, self.deviation) \/ RootGt(t, 2, self.deviation)
        THEN IF QLt(self.mean, other.mean)
             THEN Some([color |-> 92, sign |-> "-",
                        ratio |-> QDiv(QSub(other.mean, self.mean), self.mean)])
             ELSE IF self.mean = other.mean THEN None
             ELSE Some([color |-> 91, sign |-> "+",
                        ratio |-> QDiv(QSub(self.mean, other.mean), self.mean)])
        ELSE None

\* Stats::is_deviant.  lo and hi are self.deviation * (-/+ 2) + self.mean;
\* other.mean < lo is (other.mean - self.mean) < -2 * self.deviation, and
\* likewise for hi.  The String of the code is the record [color, sign,
\* ratio], ratio being the number handed to dactyl's NicePercent, whose
\* rendering is outside this repository.
is_deviant(self, other) ==
    LET t == QSub(other.mean, self.mean)
    IN  IF RootLt(t, -2, self.deviation) \/ RootGt(t, 2, self.deviation)
        THEN IF QLt(self.mean, other.mean)
             THEN Some([color |-> 92, sign |-> "-",
                        ratio |-> QDiv(QSub(other.mean, self.mean), other.mean)])
             ELSE IF self.mean = other.mean THEN None
             ELSE Some([color |-> 91, sign |-> "+",
                        ratio |-> QDiv(QSub(self.mean, other.mean), other.mean)])
        ELSE None

----------------------------------------------------------------------------
(* src/src/stats/history.rs: History.  A label is the sequence of its      *)
(* bytes, HistoryData a function from labels to Stats structs, a file the  *)
(* sequence of its bytes.  An Option<(T, &[u8])> of the Deserialize trait  *)
(* is None or Some([val, rest]).                                           *)

\* HistoryData::default(): the empty map.
NoHistory == << >>

\* b"BRUNCH00"
MAGIC == <<66, 82, 85, 78, 67, 72, 48, 48>>

\* The bytes of ' ' and of 'a'.
SP == 32
LA == 97

\* u16::MAX, the longest label serialize writes.
U16_MAX == 65535

\* uN::to_be_bytes: the size bytes of n, most significant first.
RECURSIVE to_be_bytes(_, _)
to_be_bytes(n, size) ==
    IF size = 0 THEN << >>
    ELSE Append(to_be_bytes(n \div 256, size - 1), n % 256)

\* uN::from_be_bytes
RECURSIVE from_be_bytes(_)
from_be_bytes(bytes) ==
    IF bytes = << >> THEN 0
    ELSE from_be_bytes(SubSeq(bytes, 1, Len(bytes) - 1)) * 256
         + bytes[Len(bytes)]

\* The f64 values a stored Stats holds in the model: 0.0, 1.0, 2.0, +inf
\* and NaN.
F64s == {0, 1, 2, INFINITY, NAN}

\* f64::to_be_bytes: the IEEE 754 binary64 pattern of each of them.
f64_to_be_bytes(x) ==
    CASE x = 0 -> <<0, 0, 0, 0, 0, 0, 0, 0>>
      [] x = 1 -> <<63, 240, 0, 0, 0, 0, 0, 0>>
      [] x = 2 -> <<64, 0, 0, 0, 0, 0, 0, 0>>
      [] x = INFINITY -> <<127, 240, 0, 0, 0, 0, 0, 0>>
      [] x = NAN -> <<127, 248, 0, 0, 0, 0, 0, 0>>

\* f64::from_be_bytes, on the patterns above (no other one is ever written).
f64_from_be_bytes(bytes) == CHOOSE x \in F64s : f64_to_be_bytes(x) = bytes

\* Stats.mean as the f64 it is, and back.
f64_of_mean(q) ==
    IF q.d = 0 THEN (IF q.n = 0 THEN NAN ELSE INFINITY) ELSE q.n

mean_of_f64(x) ==
    IF x = NAN THEN Q(0, 0) ELSE IF x = INFINITY THEN Q(1, 0) ELSE FromF(x)

\* Stats.deviation as the f64 it is, and back.
f64_of_deviation(r) ==
    IF r.sq.d = 0 THEN (IF r.sq.n = 0 THEN NAN ELSE INFINITY)
    ELSE CHOOSE x \in F64s : x * x = r.sq.n

deviation_of_f64(x) ==
    IF x = NAN \/ x = INFINITY THEN Sqrt(mean_of_f64(x))
    ELSE Sqrt(FromF(x * x))

\* BTreeMap::get(..).copied()
get(map, key) == IF key \in DOMAIN map THEN Some(map[key]) ELSE None

\* An insert that leaves a key that is there as it is.
insert_vacant(map, key, v) ==
    [k \in DOMAIN map \cup {key} |-> IF k \in DOMAIN map THEN map[k] ELSE v]

\* BTreeMap::insert
insert(map, key, v) ==
    [k \in DOMAIN map \cup {key} |-> IF k = key THEN v ELSE map[k]]

\* Ord for String: the order of the bytes, a prefix before what it begins.
RECURSIVE StrLt(_, _)
StrLt(a, b) ==
    IF b = << >> THEN FALSE
    ELSE IF a = << >> THEN TRUE
    ELSE IF a[1] # b[1] THEN a[1] < b[1]
    ELSE StrLt(Tail(a), Tail(b))

\* The first key of a non-empty BTreeMap iteration.
first_key(keys) == CHOOSE k \in keys : \A o \in keys \ {k} : StrLt(k, o)

\* One entry of serialize: the body of its for loop.
serialize_entry(lbl, st) ==
    IF Len(lbl) <= U16_MAX
    THEN to_be_bytes(Len(lbl), 2) \o lbl
         \o to_be_bytes(st.total, 4) \o to_be_bytes(st.valid, 4)
         \o f64_to_be_bytes(f64_of_deviation(st.deviation))
         \o f64_to_be_bytes(f64_of_mean(st.mean))
    ELSE << >>

\* The for loop of serialize, over the keys still to come.
RECURSIVE serialize_entries(_, _)
serialize_entries(h, keys) ==
    IF keys = {} THEN << >>
    ELSE serialize_entry(first_key(keys), h[first_key(keys)])
         \o serialize_entries(h, keys \ {first_key(keys)})

serialize(h) == MAGIC \o serialize_entries(h, DOMAIN h)

\* split_array::<S>
split_array(size, raw) ==
    IF size <= Len(raw)
    THEN Some([val |-> SubSeq(raw, 1, size),
               rest |-> SubSeq(raw, size + 1, Len(raw))])
    ELSE None

\* The deserialize! macro, for u16 and u32.
deserialize_uint(size, raw) ==
    IF split_array(size, raw) = None THEN None
    ELSE Some([val |-> from_be_bytes(split_array(size, raw)[1].val),
               rest |-> split_array(size, raw)[1].rest])

\* The deserialize! macro, for f64.
deserialize_f64(raw) ==
    IF split_array(8, raw) = None THEN None
    ELSE Some([val |-> f64_from_be_bytes(split_array(8, raw)[1].val),
               rest |-> split_array(8, raw)[1].rest])

\* str::trim: the bytes without the white space at either end.
RECURSIVE trim_start(_)
trim_start(lbl) ==
    IF lbl # << >> /\ lbl[1] = SP THEN trim_start(Tail(lbl)) ELSE lbl

RECURSIVE trim_end(_)
trim_end(lbl) ==
    IF lbl # << >> /\ lbl[Len(lbl)] = SP
    THEN trim_end(SubSeq(lbl, 1, Len(lbl) - 1))
    ELSE lbl

\* deserialize that keeps the label as it was written.
trim_not(lbl) == lbl

trim(lbl) == trim_end(trim_start(lbl))

\* <&str>::deserialize after its u16: len is the result of u16::deserialize.
str_after_len(len) ==
    IF len = None THEN None
    ELSE IF Len(len[1].rest) < len[1].val THEN None
    ELSE Some([val |-> trim(SubSeq(len[1].rest, 1, len[1].val)),
               rest |-> SubSeq(len[1].rest, len[1].val + 1, Len(len[1].rest))])

\* impl Deserialize for &str
deserialize_str(raw) == str_after_len(deserialize_uint(2, raw))

\* Stats::deserialize, one `?` after the other: each parameter is the result
\* of the read before.
stats_after_mean(total, valid, dev, avg) ==
    IF avg = None THEN None
    ELSE Some([val |-> [total |-> total, valid |-> valid,
                        deviation |-> deviation_of_f64(dev),
                        mean |-> mean_of_f64(avg[1].val)],
               rest |-> avg[1].rest])

stats_after_deviation(total, valid, dev) ==
    IF dev = None THEN None
    ELSE stats_after_mean(total, valid, dev[1].val,
                          deserialize_f64(dev[1].rest))

stats_after_valid(total, valid) ==
    IF valid = None THEN None
    ELSE stats_after_deviation(total, valid[1].val,
                               deserialize_f64(valid[1].rest))

stats_after_total(total) ==
    IF total = None THEN None
    ELSE stats_after_valid(total[1].val, deserialize_uint(4, total[1].rest))

\* impl Deserialize for Stats
deserialize_stats(raw) == stats_after_total(deserialize_uint(4, raw))

RECURSIVE deserialize_entries(_, _)
RECURSIVE entry_after_label(_, _)
RECURSIVE entry_after_stats(_, _, _)

\* entry_after_stats that keeps what was read when the bytes run out.
entry_after_stats_lenient(lbl, st, out) ==
    IF st = None THEN Some(out)
    ELSE deserialize_entries(st[1].rest,
            IF lbl # << >> /\ is_valid(st[1].val)
            THEN insert(out, lbl, st[1].val)
            ELSE out)

\* "Push the result if it's valid", and on to the rest.
entry_after_stats(lbl, st, out) ==
    IF st = None THEN None
    ELSE deserialize_entries(st[1].rest,
            IF lbl # << >> /\ is_valid(st[1].val)
            THEN insert(out, lbl, st[1].val)
            ELSE out)

entry_after_label(lbl, out) ==
    IF lbl = None THEN None
    ELSE entry_after_stats(lbl[1].val, deserialize_stats(lbl[1].rest), out)

\* The while loop of deserialize.
deserialize_entries(raw, out) ==
    IF raw = << >> THEN Some(out)
    ELSE entry_after_label(deserialize_str(raw), out)

\* <[u8]>::strip_prefix
strip_prefix(raw, prefix) ==
    IF Len(raw) >= Len(prefix) /\ SubSeq(raw, 1, Len(prefix)) = prefix
    THEN Some(SubSeq(raw, Len(prefix) + 1, Len(raw)))
    ELSE None

\* fn deserialize(raw: &[u8]) -> Option<HistoryData>
deserialize(raw) ==
    IF strip_prefix(raw, MAGIC) = None THEN None
    ELSE deserialize_entries(strip_prefix(raw, MAGIC)[1], NoHistory)

\* load_history: fs::read(file).ok()?, then deserialize.  file is the
\* state of the history file.
load_history(file) ==
    IF file.kind # "file" THEN None ELSE deserialize(file.bytes)

\* Option::unwrap_or_default
unwrap_or_default(o) == IF o = None THEN NoHistory ELSE o[1]

\* impl Default for History
HistoryDefault(file) == unwrap_or_default(load_history(file))

----------------------------------------------------------------------------
(* The state. *)

VARIABLES
    abacus,     \* the sample set under study
    prior,      \* the sample set as it was before the latest prune_outliers
    calls,      \* the number of prune_outliers calls made on abacus
    ret,        \* the latest call and what it returned
    samples,    \* the Vec<Duration> handed to Stats::try_from
    stats,      \* the Result of Stats::try_from, once it has run
    other,      \* the Stats of the previous run, as the history holds them
    history,    \* History.0: the map from bench label to Stats
    storage,    \* the history file: missing, unreadable, or its bytes
    inserted,   \* the History::insert calls made so far, (key, Stats) each
    benches,    \* Benches.0: the Vec<Bench>, each Bench its name and stats
    bench,      \* the Bench that Bench::run is called on
    now         \* now.elapsed() in Bench::run

vars == <<abacus, prior, calls, ret, samples, stats, other,
          history, storage, inserted, benches, bench, now>>

\* What the statistics leave alone.
histVars == <<history, storage, inserted>>

\* What the statistics and the history alone leave alone.
benchVars == <<benches, bench, now>>

\* Bench::run is not under study.
NoBench == [name |-> << >>]

\* There is no history file.
Missing == [kind |-> "missing"]

NoRet == [op |-> "none"]

NoStats == [kind |-> "none"]

\* n copies of x.
Rep(x, n) == [i \in 1..n |-> x]

Phis == {Q(k, PhiDen) : k \in 0..PhiDen}

----------------------------------------------------------------------------
(* Spec: one small sample set, built from a raw Vec<f64>, then queried and *)
(* pruned.  The raw list is a run of one value followed by up to three     *)
(* single values, in no particular order: an edge value (a zero, or a      *)
(* value the constructor rejects) and two samples.                         *)

Vals == {as_secs_f64(d) : d \in 0..MaxVal}

Rejected == {-Unit, INFINITY, NAN}

\* An optional single value: absent, or one element.
Single(S) == {<< >>} \cup {<<v>> : v \in S}

\* tests::t_set, the 24 values 1.0 .. 3.0, a tenth being one Unit.
t_set ==
    Rep(10 * Unit, 3) \o Rep(18 * Unit, 2) \o Rep(19 * Unit, 4)
    \o Rep(20 * Unit, 4) \o Rep(21 * Unit, 2) \o Rep(22 * Unit, 2)
    \o Rep(23 * Unit, 2) \o Rep(24 * Unit, 2) \o Rep(30 * Unit, 3)

Init ==
    /\ \/ \E b \in Vals, n \in 0..MaxRun, s1 \in Single({0} \cup Rejected),
             s2 \in Single(Vals), s3 \in Single(Vals) :
               abacus = AbacusFromF64(Rep(b, n) \o s1 \o s2 \o s3)
       \/ abacus = AbacusFromF64(t_set)
    /\ prior = abacus
    /\ calls = 0
    /\ ret = NoRet
    /\ samples = << >>
    /\ stats = NoStats
    /\ other = NoStats
    /\ history = NoHistory /\ storage = Missing /\ inserted = << >>
    /\ benches = << >> /\ bench = NoBench /\ now = 0

\* &mut self: the one operation that changes the set.
PruneOutliers ==
    /\ calls < MaxPrunes
    /\ prior' = abacus
    /\ abacus' = prune_outliers(abacus)
    /\ calls' = calls + 1
    /\ ret' = NoRet
    /\ UNCHANGED benchVars
    /\ UNCHANGED <<samples, stats, other>>
    /\ UNCHANGED histVars

\* The queries take &self and leave the set as it is; ret records one query
\* per state of the set.
Quantile ==
    /\ ret = NoRet
    /\ \E phi \in Phis :
        ret' = [op |-> "quantile", phi |-> phi, val |-> quantile(abacus, phi)]
    /\ UNCHANGED benchVars
    /\ UNCHANGED <<abacus, prior, calls, samples, stats, other>>
    /\ UNCHANGED histVars

\* min(), max() and mean() of the set, taken together.
Summary ==
    /\ ret = NoRet
    /\ ret' = [op |-> "summary", min |-> min(abacus), max |-> max(abacus),
               mean |-> mean(abacus)]
    /\ UNCHANGED benchVars
    /\ UNCHANGED <<abacus, prior, calls, samples, stats, other>>
    /\ UNCHANGED histVars

Next == PruneOutliers \/ Quantile \/ Summary

Spec == Init /\ [][Next]_vars

\* The runs of prune_outliers alone, on the sets of Spec.
NextPrune == PruneOutliers

SpecPrune == Init /\ [][NextPrune]_vars

----------------------------------------------------------------------------
(* SpecIdeal: ideal_quantile on the small sample sets of Spec.  phi runs   *)
(* over the grid of Spec and, for a set of len samples, over the quarter   *)
(* steps of 1 / len next to 0 and to 1: 1.5 * epsilon is 3 / (4 * len).    *)

\* phi comes as close as k / (4 * len) to 0 and to 1, for k up to EdgeSteps.
EdgeSteps == 4

EdgePhis(a) ==
    IF is_empty(a) THEN {}
    ELSE {Q(k, 4 * a.len) : k \in 1..EdgeSteps}
         \cup {Q(4 * a.len - k, 4 * a.len) : k \in 1..EdgeSteps}

IdealQuantile ==
    /\ ret = NoRet
    /\ \E phi \in Phis \cup EdgePhis(abacus) :
        ret' = [op |-> "ideal_quantile", phi |-> phi,
                val |-> ideal_quantile(abacus, phi)]
    /\ UNCHANGED benchVars
    /\ UNCHANGED <<abacus, prior, calls, samples, stats, other>>
    /\ UNCHANGED histVars

NextIdeal == IdealQuantile

SpecIdeal == Init /\ [][NextIdeal]_vars

----------------------------------------------------------------------------
(* SpecClimb: quantile and ideal_quantile on sample sets made of up to     *)
(* four runs of equal values, each of up to MaxCopies samples, with phi at *)
(* every quarter rank k / (4 * len): every target rank is met, from both   *)
(* sides of the halves where round() turns, and so is every way the runs   *)
(* around it can differ in length.                                         *)

MaxCopies == 4

\* The values of the runs; only their order matters to quantile.
RunVals == <<1 * Unit, 2 * Unit, 4 * Unit, 7 * Unit>>

QuarterRanks(a) ==
    IF is_empty(a) THEN {FromF(0), Q(1, 2), FromF(1)}
    ELSE {Q(k, 4 * a.len) : k \in 0..(4 * a.len)}

InitClimb ==
    /\ \E n \in [1..Len(RunVals) -> 0..MaxCopies] :
          abacus = AbacusFromF64(Rep(RunVals[1], n[1]) \o Rep(RunVals[2], n[2])
                                 \o Rep(RunVals[3], n[3]) \o Rep(RunVals[4], n[4]))
    /\ prior = abacus
    /\ calls = 0
    /\ ret = NoRet
    /\ samples = << >>
    /\ stats = NoStats
    /\ other = NoStats
    /\ history = NoHistory /\ storage = Missing /\ inserted = << >>
    /\ benches = << >> /\ bench = NoBench /\ now = 0

\* Abacus::quantile at a quarter rank.
ClimbQuantile ==
    /\ ret = NoRet
    /\ \E phi \in QuarterRanks(abacus) :
        ret' = [op |-> "quantile", phi |-> phi, val |-> quantile(abacus, phi)]
    /\ UNCHANGED benchVars
    /\ UNCHANGED <<abacus, prior, calls, samples, stats, other>>
    /\ UNCHANGED histVars

\* Abacus::ideal_quantile at a quarter rank.
ClimbIdeal ==
    /\ ret = NoRet
    /\ \E phi \in QuarterRanks(abacus) :
        ret' = [op |-> "ideal_quantile", phi |-> phi,
                val |-> ideal_quantile(abacus, phi)]
    /\ UNCHANGED benchVars
    /\ UNCHANGED <<abacus, prior, calls, samples, stats, other>>
    /\ UNCHANGED histVars

NextClimb == ClimbQuantile \/ ClimbIdeal

SpecClimb == InitClimb /\ [][NextClimb]_vars

----------------------------------------------------------------------------
(* SpecFrom: the constructor on a raw Vec<f64>, kept in samples, of every  *)
(* kind of f64: zeros of both signs, normal and subnormal positive values, *)
(* a negative value, the infinities and NaN.                               *)

\* The longest raw list.
MaxRaw == 3

RawVals ==
    {0, NEG_ZERO, SUBNORMAL, Unit, 2 * Unit, -Unit, INFINITY, -INFINITY, NAN}

InitFrom ==
    /\ \E n \in 0..MaxRaw : samples \in [1..n -> RawVals]
    /\ abacus = AbacusFromF64(<< >>)
    /\ prior = abacus
    /\ calls = 0
    /\ ret = NoRet
    /\ stats = NoStats
    /\ other = NoStats
    /\ history = NoHistory /\ storage = Missing /\ inserted = << >>
    /\ benches = << >> /\ bench = NoBench /\ now = 0

From ==
    /\ ret = NoRet
    /\ abacus' = AbacusFromF64(samples)
    /\ prior' = abacus'
    /\ ret' = [op |-> "from"]
    /\ UNCHANGED benchVars
    /\ UNCHANGED <<calls, samples, stats, other>>
    /\ UNCHANGED histVars

NextFrom == From

SpecFrom == InitFrom /\ [][NextFrom]_vars

----------------------------------------------------------------------------
(* SpecStats: Stats::try_from on one Vec<Duration>.  The list is a long    *)
(* run of one duration, of a length around MIN_SAMPLES (or of length 0 or  *)
(* 1), followed by two short runs, the second of a duration no shorter     *)
(* than the first.  abacus and prior show the local `calc` of try_from      *)
(* after and before its prune_outliers, when it gets that far.             *)

\* The samples are Durations of 0..MaxTick ticks.
MaxTick == 4
\* The longest short run.
MaxFew == 2
\* The long run has MIN_SAMPLES - Slack .. MIN_SAMPLES + Slack elements.
Slack == 3

Ticks == 0..MaxTick

Sizes == {0, 1} \cup ((MIN_SAMPLES - Slack)..(MIN_SAMPLES + Slack))

InitStats ==
    /\ \E b \in Ticks, n \in Sizes, v1 \in Ticks, c1 \in 0..MaxFew,
          v2 \in Ticks, c2 \in 0..MaxFew :
            /\ v1 <= v2
            /\ samples = Rep(b, n) \o Rep(v1, c1) \o Rep(v2, c2)
    /\ abacus = AbacusFrom(<< >>)
    /\ prior = abacus
    /\ calls = 0
    /\ ret = NoRet
    /\ stats = NoStats
    /\ other = NoStats
    /\ history = NoHistory /\ storage = Missing /\ inserted = << >>
    /\ benches = << >> /\ bench = NoBench /\ now = 0

TryFrom ==
    /\ stats = NoStats
    /\ stats' = try_from(samples)
    /\ IF Len(samples) >= MIN_SAMPLES
       THEN /\ prior' = AbacusFrom(samples)
            /\ abacus' = prune_outliers(AbacusFrom(samples))
            /\ calls' = 1
       ELSE UNCHANGED <<abacus, prior, calls>>
    /\ UNCHANGED benchVars
    /\ UNCHANGED <<ret, samples, other>>
    /\ UNCHANGED histVars

NextStats == TryFrom

SpecStats == InitStats /\ [][NextStats]_vars

----------------------------------------------------------------------------
(* SpecDeviant: Stats::is_deviant on two valid Stats, this run's (stats)   *)
(* and the previous run's (other).  Means are whole numbers near zero and  *)
(* around Centre; a deviation is the root of a whole number.               *)

Centre == 100
MaxDelta == 3
MaxDevSq == 4

Means == (0..MaxDelta) \cup ((Centre - MaxDelta)..(Centre + MaxDelta))

ValidStats ==
    {Ok([total |-> t, valid |-> MIN_SAMPLES, deviation |-> Sqrt(FromF(s)),
         mean |-> FromF(m)]) :
        t \in {MIN_SAMPLES, MIN_SAMPLES + 1}, s \in 0..MaxDevSq, m \in Means}

InitDeviant ==
    /\ stats \in ValidStats
    /\ other \in {o \in ValidStats : o.total = MIN_SAMPLES}
    /\ history = NoHistory /\ storage = Missing /\ inserted = << >>
    /\ benches = << >> /\ bench = NoBench /\ now = 0
    /\ ret = NoRet
    /\ samples = << >>
    /\ abacus = AbacusFrom(<< >>)
    /\ prior = abacus
    /\ calls = 0

IsDeviant ==
    /\ ret = NoRet
    /\ ret' = [op |-> "is_deviant", val |-> is_deviant(stats, other)]
    /\ UNCHANGED benchVars
    /\ UNCHANGED <<abacus, prior, calls, samples, stats, other>>
    /\ UNCHANGED histVars

NextDeviant == IsDeviant

SpecDeviant == InitDeviant /\ [][NextDeviant]_vars

----------------------------------------------------------------------------
(* SpecStore: a history map is saved to the file, the file is left alone,  *)
(* cut short, given another header or made unreadable, and History::default *)
(* loads it.  Labels are made of ' ' and 'a'; a Stats of the map is valid,  *)
(* or has valid > total, or has a deviation that is NaN.                    *)

\* The longest label, in bytes.
MaxLabel == 2
\* The most entries of a map.
MaxEntries == 2
\* The file is cut by 1, 9, .. 1 + 8 * MaxCut bytes: into the mean, the
\* deviation, the counts, the label of its last entry, and further.
MaxCut == 3

Labels == UNION {[1..n -> {SP, LA}] : n \in 0..MaxLabel}

HistStats ==
    {[total |-> MIN_SAMPLES + 1, valid |-> MIN_SAMPLES,
      deviation |-> deviation_of_f64(1), mean |-> mean_of_f64(2)],
     [total |-> MIN_SAMPLES, valid |-> MIN_SAMPLES,
      deviation |-> deviation_of_f64(0), mean |-> mean_of_f64(0)],
     [total |-> MIN_SAMPLES, valid |-> MIN_SAMPLES + 1,
      deviation |-> deviation_of_f64(0), mean |-> mean_of_f64(1)],
     [total |-> MIN_SAMPLES, valid |-> MIN_SAMPLES,
      deviation |-> deviation_of_f64(NAN), mean |-> mean_of_f64(1)]}

Maps ==
    UNION {[keys -> HistStats] :
              keys \in {k \in SUBSET Labels : Cardinality(k) <= MaxEntries}}

File(bytes) == [kind |-> "file", bytes |-> bytes]

Unreadable == [kind |-> "unreadable"]

InitStore ==
    /\ history \in Maps
    /\ storage = Missing
    /\ inserted = << >>
    /\ benches = << >> /\ bench = NoBench /\ now = 0
    /\ ret = NoRet
    /\ abacus = AbacusFrom(<< >>)
    /\ prior = abacus
    /\ calls = 0
    /\ samples = << >>
    /\ stats = NoStats
    /\ other = NoStats

\* History::save, where the file can be created; the file is read by the
\* run after the one that saves.
Save ==
    /\ storage = Missing
    /\ ret = NoRet
    /\ storage' = File(serialize(history))
    /\ UNCHANGED benchVars
    /\ UNCHANGED <<abacus, prior, calls, ret, samples, stats, other,
                   history, inserted>>

\* The file as saved loses its last bytes.
Truncate ==
    /\ storage = File(serialize(history))
    /\ ret = NoRet
    /\ \E j \in 0..MaxCut :
          /\ 1 + 8 * j <= Len(storage.bytes)
          /\ storage' = File(SubSeq(storage.bytes, 1,
                                    Len(storage.bytes) - (1 + 8 * j)))
    /\ UNCHANGED benchVars
    /\ UNCHANGED <<abacus, prior, calls, ret, samples, stats, other,
                   history, inserted>>

\* The file as saved gets a header that is not MAGIC: another first byte,
\* or another format version.
Reheader ==
    /\ storage = File(serialize(history))
    /\ ret = NoRet
    /\ \E i \in {1, Len(MAGIC)} :
          storage' = File([storage.bytes EXCEPT ![i] = 49])
    /\ UNCHANGED benchVars
    /\ UNCHANGED <<abacus, prior, calls, ret, samples, stats, other,
                   history, inserted>>

\* The file can no longer be read.
Forbid ==
    /\ storage = File(serialize(history))
    /\ ret = NoRet
    /\ storage' = Unreadable
    /\ UNCHANGED benchVars
    /\ UNCHANGED <<abacus, prior, calls, ret, samples, stats, other,
                   history, inserted>>

\* History::default() in the next run; ret holds the History it builds and
\* whether load_history gave None.
Load ==
    /\ ret = NoRet
    /\ ret' = [op |-> "load", val |-> HistoryDefault(storage),
               none |-> load_history(storage) = None]
    /\ UNCHANGED benchVars
    /\ UNCHANGED <<abacus, prior, calls, samples, stats, other,
                   history, storage, inserted>>

NextStore == Save \/ Truncate \/ Reheader \/ Forbid \/ Load

SpecStore == InitStore /\ [][NextStore]_vars

----------------------------------------------------------------------------
(* History::get and History::insert on a History as loaded. *)

MaxInserts == 2

\* Names as Bench::new leaves them: trimmed and not empty.
BenchNames == {<<LA>>, <<LA, LA>>, <<LA, SP, LA>>}

\* The run starts from History::default(): no file, or the file of an
\* earlier run with one entry.
InitHistory ==
    /\ storage \in {Missing} \cup
           {File(serialize([k \in {n} |-> st])) :
                n \in BenchNames, st \in HistStats}
    /\ history = HistoryDefault(storage)
    /\ inserted = << >>
    /\ benches = << >> /\ bench = NoBench /\ now = 0
    /\ ret = NoRet
    /\ abacus = AbacusFrom(<< >>)
    /\ prior = abacus
    /\ calls = 0
    /\ samples = << >>
    /\ stats = NoStats
    /\ other = NoStats

\* History::insert
Insert ==
    /\ Len(inserted) < MaxInserts
    /\ \E key \in BenchNames, v \in HistStats :
          /\ history' = insert(history, key, v)
          /\ inserted' = Append(inserted, [key |-> key, v |-> v])
          /\ ret' = [op |-> "insert", key |-> key]
    /\ UNCHANGED benchVars
    /\ UNCHANGED <<abacus, prior, calls, samples, stats, other, storage>>

\* History::get
Get ==
    /\ \E key \in BenchNames :
          ret' = [op |-> "get", key |-> key, val |-> get(history, key)]
    /\ UNCHANGED benchVars
    /\ UNCHANGED <<abacus, prior, calls, samples, stats, other,
                   history, storage, inserted>>

NextHistory == Insert \/ Get

SpecHistory == InitHistory /\ [][NextHistory]_vars

----------------------------------------------------------------------------
(* src/src/bench.rs: Benches and Table.  A Bench of the collection is the  *)
(* record [name, stats] of the two fields finish reads; stats is an        *)
(* Option<Result<Stats, BrunchError>>.  A TableRow is a record with a row  *)
(* kind.  What a row shows is carried unformatted: the name with the names *)
(* it is styled against, the mean, the two sample counts, and the change   *)
(* as is_deviant returns it.                                               *)

DupeName == [kind |-> "DupeName"]

NoRun == [kind |-> "NoRun"]

\* The Stats inside an Ok.
ok_stats(r) == [total |-> r.total, valid |-> r.valid,
                deviation |-> r.deviation, mean |-> r.mean]

is_spacer(b) == b.name = << >>

\* Benches::has_name
has_name(bs, name) == \E i \in 1..Len(bs) : bs[i].name = name

\* push that never marks a duplicate.
push_unmarked(bs, b) == Append(bs, b)

\* Benches::push
push(bs, b) ==
    Append(bs, IF ~is_spacer(b) /\ has_name(bs, b.name)
               THEN [b EXCEPT !.stats = Some(DupeName)]
               ELSE b)

Spacer == [row |-> "Spacer"]

Normal(name, time, counts, diff) ==
    [row |-> "Normal", name |-> name, time |-> time, samples |-> counts,
     diff |-> diff]

Error(name, e) == [row |-> "Error", name |-> name, e |-> e]

\* Table::default(): the header and a spacer.
TableDefault == <<Normal("Method", "Mean", "Samples", "Change"), Spacer>>

\* "\x1b[2m---\x1b[0m": dimmed dashes, a cell like the one is_deviant
\* returns.
NO_CHANGE == [color |-> 2, sign |-> "---"]

\* format_name, unstyled: the name and the names it is set against.
format_name(name, names) == [name |-> name, names |-> names]

\* Stats::nice_mean, unformatted: the mean in seconds.
nice_mean(st) == [secs |-> st.mean]

\* Option::unwrap_or
unwrap_or(o, d) == IF o = None THEN d ELSE o[1]

\* history.get(..).and_then(|h| s.is_deviant(h)).unwrap_or_else(NO_CHANGE)
diff_against(st, h) ==
    IF h = None THEN NO_CHANGE
    ELSE unwrap_or(is_deviant(st, h[1]), NO_CHANGE)

\* Table::push
table_push(table, src, names, hist) ==
    IF is_spacer(src) THEN Append(table, Spacer)
    ELSE IF unwrap_or(src.stats, NoRun).kind = "Ok"
    THEN Append(table,
                Normal(format_name(src.name, names),
                       nice_mean(src.stats[1]),
                       <<src.stats[1].valid, src.stats[1].total>>,
                       diff_against(src.stats[1], get(hist, src.name))))
    ELSE Append(table, Error(format_name(src.name, names),
                             unwrap_or(src.stats, NoRun)))

\* The loop of finish that stops at the first benchmark without Ok stats.
RECURSIVE summarize_abort(_, _, _, _)
summarize_abort(table, rest, names, hist) ==
    IF rest = << >> THEN table
    ELSE IF ~is_spacer(Head(rest)) /\ unwrap_or(Head(rest).stats, NoRun).kind # "Ok"
    THEN table_push(table, Head(rest), names, hist)
    ELSE summarize_abort(table_push(table, Head(rest), names, hist),
                         Tail(rest), names, hist)

\* for b in &self.0 { summary.push(b, &names, &history); }
RECURSIVE summarize(_, _, _, _)
summarize(table, rest, names, hist) ==
    IF rest = << >> THEN table
    ELSE summarize(table_push(table, Head(rest), names, hist),
                   Tail(rest), names, hist)

\* The names of the benchmarks that are not spacers.
RECURSIVE names_of(_)
names_of(bs) ==
    IF bs = << >> THEN << >>
    ELSE IF is_spacer(Head(bs)) THEN names_of(Tail(bs))
    ELSE <<Head(bs).name>> \o names_of(Tail(bs))

\* The history file cannot be had: history_path() is None.
Disabled == [kind |-> "disabled"]

\* History::save
save(file, h) == IF file = Disabled THEN file ELSE File(serialize(h))

\* The loop of finish_history: acc is the History and the inserts made.
RECURSIVE copy_over(_, _)
copy_over(acc, rest) ==
    IF rest = << >> THEN acc
    ELSE IF unwrap_or(Head(rest).stats, NoRun).kind = "Ok"
    THEN copy_over([history |-> insert(acc.history, Head(rest).name,
                                       ok_stats(Head(rest).stats[1])),
                    inserted |-> Append(acc.inserted,
                                        [key |-> Head(rest).name,
                                         v |-> ok_stats(Head(rest).stats[1])])],
                   Tail(rest))
    ELSE copy_over(acc, Tail(rest))

\* finish_history after its loop: "Save it."
saved(acc, file) ==
    [history |-> acc.history, inserted |-> acc.inserted,
     storage |-> save(file, acc.history)]

\* finish_history that saves the History before it copies the values over.
finish_history_early(bs, hist, file) ==
    [saved(copy_over([history |-> hist, inserted |-> << >>], bs), file)
        EXCEPT !.storage = save(file, hist)]

\* Benches::finish_history
finish_history(bs, hist, file) ==
    saved(copy_over([history |-> hist, inserted |-> << >>], bs), file)

\* The Table when finish returns early: nothing was built.
NoTable == << >>

\* What finish built and what it leaves behind: the Table, and the History,
\* the inserts and the file of finish_history.
finished(summary, left) ==
    [summary |-> summary, history |-> left.history,
     inserted |-> left.inserted, storage |-> left.storage]

\* finish from "Update the history." on.
finish_update(summary, bs, hist, file) ==
    finished(summary, finish_history(bs, hist, file))

\* finish from "Build the summaries." on; hist is History::default().
finish_build(bs, hist, file) ==
    finish_update(summarize(TableDefault, bs, names_of(bs), hist),
                  bs, hist, file)

\* finish that updates the history before it builds the summaries.
finish_late_summary(bs, file) ==
    IF bs = << >>
    THEN finished(NoTable, [history |-> NoHistory, inserted |-> << >>,
                            storage |-> file])
    ELSE finished(summarize(TableDefault, bs, names_of(bs),
                      finish_history(bs, HistoryDefault(file), file).history),
                  finish_history(bs, HistoryDefault(file), file))

\* Benches::finish
finish(bs, file) ==
    IF bs = << >>
    THEN finished(NoTable, [history |-> NoHistory, inserted |-> << >>,
                            storage |-> file])
    ELSE finish_build(bs, HistoryDefault(file), file)

----------------------------------------------------------------------------
(* SpecBenches: benchmarks are pushed to a Benches, then finish runs on    *)
(* it, with no history file, no history at all, or the file of an earlier  *)
(* run.  A pushed Bench is a spacer, or has one of two names and was never *)
(* run, failed, or has Stats that differ or do not differ from the record  *)
(* of the earlier run.                                                     *)

MaxBenches == 3

PushNames == {<<LA>>, <<LA, LA>>}

\* The record of the earlier run: mean 1, deviation 0.
Earlier ==
    [total |-> MIN_SAMPLES, valid |-> MIN_SAMPLES,
     deviation |-> deviation_of_f64(0), mean |-> mean_of_f64(1)]

\* Stats of this run: the mean of the earlier run, or twice that.
RunStats ==
    {[total |-> MIN_SAMPLES + 1, valid |-> MIN_SAMPLES,
      deviation |-> deviation_of_f64(0), mean |-> mean_of_f64(m)] : m \in {1, 2}}

Pushable ==
    {[name |-> << >>, stats |-> None]}
    \cup [name : PushNames,
          stats : {None, Some(TooSmall(1)), Some(TooWild), Some(Overflow)}
                  \cup {Some(Ok(st)) : st \in RunStats}]

InitBenches ==
    /\ benches = << >>
    /\ storage \in {Missing, Disabled}
           \cup {File(serialize([k \in keys |-> Earlier])) :
                    keys \in (SUBSET PushNames) \ {{}}}
    /\ history = NoHistory
    /\ inserted = << >>
    /\ ret = NoRet
    /\ bench = NoBench /\ now = 0
    /\ abacus = AbacusFrom(<< >>)
    /\ prior = abacus
    /\ calls = 0
    /\ samples = << >>
    /\ stats = NoStats
    /\ other = NoStats

\* Benches::push; ret keeps the argument and the collection as it was.
Push ==
    /\ ret.op # "finish"
    /\ Len(benches) < MaxBenches
    /\ \E b \in Pushable :
          /\ benches' = push(benches, b)
          /\ ret' = [op |-> "push", b |-> b, before |-> benches]
    /\ UNCHANGED <<abacus, prior, calls, samples, stats, other,
                   history, storage, inserted, bench, now>>

\* Benches::finish; ret keeps the Table and the file as it was.
Finish ==
    /\ ret.op # "finish"
    /\ \E out \in {finish(benches, storage)} :
          /\ ret' = [op |-> "finish", summary |-> out.summary,
                     before |-> storage]
          /\ history' = out.history
          /\ inserted' = out.inserted
          /\ storage' = out.storage
    /\ UNCHANGED <<abacus, prior, calls, samples, stats, other,
                   benches, bench, now>>

NextBenches == Push \/ Finish

SpecBenches == InitBenches /\ [][NextBenches]_vars

----------------------------------------------------------------------------
(* SpecRun: Bench::run, one pass of its loop at a time.  Time is counted   *)
(* in ticks of a quarter of a second.  The Bench under study is the record *)
(* [name, samples, timeout, cb]: cb is the time one call of the callback   *)
(* takes, the same at every call; between two readings of the clock up to  *)
(* MaxLag ticks more go by.  samples is the local `times`, now is          *)
(* now.elapsed() as the loop last read it, stats is self.stats.            *)

MaxLag == 1

\* Duration::from_millis(500)
HALF_SECOND == 2

\* Bench::with_timeout
with_timeout(b, timeout) ==
    IF timeout < HALF_SECOND THEN [b EXCEPT !.timeout = HALF_SECOND]
    ELSE [b EXCEPT !.timeout = timeout]

\* Bench::with_samples
with_samples(b, n) ==
    IF n < MIN_SAMPLES THEN [b EXCEPT !.samples = MIN_SAMPLES]
    ELSE [b EXCEPT !.samples = n]

\* The loop of run that only stops at the sample limit.
looping_untimed(b, times, elapsed) == Len(times) < b.samples

\* The loop of run goes on: the range is not used up, and no sample has
\* been followed by a reading at or past the timeout.
looping(b, times, elapsed) ==
    /\ Len(times) < b.samples
    /\ times = << >> \/ elapsed < b.timeout

InitRun ==
    /\ \E name \in {<< >>, <<LA>>}, n \in {1, MIN_SAMPLES + 1},
          timeout \in {1, HALF_SECOND + 1}, cb \in 0..1 :
          bench = with_timeout(with_samples(
                      [name |-> name, samples |-> MIN_SAMPLES,
                       timeout |-> HALF_SECOND, cb |-> cb], n), timeout)
    /\ now = 0
    /\ samples = << >>
    /\ stats = NoStats
    /\ ret = NoRet
    /\ benches = << >>
    /\ history = NoHistory /\ storage = Missing /\ inserted = << >>
    /\ abacus = AbacusFrom(<< >>)
    /\ prior = abacus
    /\ calls = 0
    /\ other = NoStats

\* One pass of the loop: time the callback, push the sample, read the
\* clock.  ret keeps the reading before the pass.
Sample ==
    /\ ~is_spacer(bench)
    /\ ret.op # "run"
    /\ looping(bench, samples, now)
    /\ samples' = Append(samples, bench.cb)
    /\ \E lag \in 0..MaxLag : now' = now + bench.cb + lag
    /\ ret' = [op |-> "sample", before |-> now]
    /\ UNCHANGED <<abacus, prior, calls, stats, other, benches, bench>>
    /\ UNCHANGED histVars

\* The end of run: at once for a spacer, else after the loop, with
\* self.stats.replace(Stats::try_from(times)).
\* run has returned: ret keeps the clock read before the last sample.
Returning ==
    /\ ret.op # "run"
    /\ is_spacer(bench) \/ ~looping(bench, samples, now)
    /\ ret' = [op |-> "run", before |-> IF ret = NoRet THEN 0 ELSE ret.before]

Return ==
    /\ Returning
    /\ stats' = IF is_spacer(bench) THEN stats ELSE try_from(samples)
    /\ UNCHANGED <<abacus, prior, calls, samples, other, benches, bench, now>>
    /\ UNCHANGED histVars

NextRun == Sample \/ Return

\* The callback returns and run is never suspended for ever: each of its
\* steps is taken once it can be.  A step that leaves the loop is a Return,
\* so the fairness of Return is stated on Returning.
SpecRun ==
    InitRun /\ [][NextRun]_vars /\ WF_vars(Sample) /\ WF_ret(Returning)

----------------------------------------------------------------------------
(* Helpers of the properties. *)

Elems(s) == {s[i] : i \in 1..Len(s)}

IsSorted(s) == \A i \in 1..(Len(s) - 1) : s[i] <= s[i + 1]

RECURSIVE IsSubSeqFrom(_, _, _, _)
\* s[i..] can be read off t[j..] in order.
IsSubSeqFrom(s, t, i, j) ==
    IF i > Len(s) THEN TRUE
    ELSE IF j > Len(t) THEN FALSE
    ELSE IF s[i] = t[j] THEN IsSubSeqFrom(s, t, i + 1, j + 1)
    ELSE IsSubSeqFrom(s, t, i, j + 1)

IsSubSeq(s, t) == IsSubSeqFrom(s, t, 1, 1)

----------------------------------------------------------------------------
(* Properties of the sample set, checked under Spec. *)

\* C1: for a non-empty sample set and phi in [0, 1], quantile(phi) returns
\* an element of the set; quantile(0) is min() and quantile(1) is max().
C1_QuantileIsMember ==
    (ret.op = "quantile" /\ ~is_empty(abacus)) =>
        /\ ret.val \in Elems(abacus.set)
        /\ ret.phi = FromF(0) => ret.val = min(abacus)
        /\ ret.phi = FromF(1) => ret.val = max(abacus)

\* C1 witness: an interior phi answered by a sample that is neither the
\* smallest nor the largest of a set with several distinct values.
C1_Witness ==
    /\ ret.op = "quantile"
    /\ abacus.unique >= 3
    /\ QLt(FromF(0), ret.phi) /\ QLt(ret.phi, FromF(1))
    /\ ret.val \in Elems(abacus.set)
    /\ ret.val # min(abacus) /\ ret.val # max(abacus)

\* C2 as claimed: a second prune_outliers directly after the first removes
\* nothing and leaves the sequence, count, distinct count and sum as they were.
C2_Idempotent ==
    calls >= 2 => abacus = prior

\* C2, amended: a run of prune_outliers only removes samples (what is left
\* is a sub-sequence of what was there, with count, distinct count and sum
\* recomputed from it), and a run that removes nothing leaves all four
\* fields exactly as they were.
C2_OnlyRemoves ==
    calls >= 1 =>
        /\ IsSubSeq(abacus.set, prior.set)
        /\ abacus.len = Len(abacus.set)
        /\ abacus.unique = Cardinality(Elems(abacus.set))
        /\ abacus.total = Sum(abacus.set)
        /\ abacus.len = prior.len => abacus = prior

\* C2 witness: the second run removed a sample the first run had kept.
C2_Witness ==
    /\ calls = 2
    /\ abacus.len < prior.len
    /\ IsSubSeq(abacus.set, prior.set)

----------------------------------------------------------------------------
(* Properties of Stats::try_from, checked under SpecStats. *)

Ran == stats.kind # "none"

\* The list is not empty and holds one duration only.
Uniform(src) == src # << >> /\ \A i \in 1..Len(src) : src[i] = src[1]

\* C3: every Stats that construction returns as Ok satisfies the validity
\* predicate: MIN_SAMPLES <= valid <= total, deviation finite and >= 0,
\* mean finite and >= 0.
C3_OkIsValid ==
    stats.kind = "Ok" =>
        /\ MIN_SAMPLES <= stats.valid
        /\ stats.valid <= stats.total
        /\ stats.deviation.sq.d # 0 /\ stats.deviation.sq.n >= 0
        /\ stats.mean.d # 0 /\ stats.mean.n >= 0

\* C3 witness: an Ok built from a list that pruning has cut.
C3_Witness ==
    /\ stats.kind = "Ok"
    /\ stats.valid < stats.total
    /\ stats.total = Len(samples)

\* C4: a list of fewer than MIN_SAMPLES elements, the empty one included,
\* fails with TooSmall carrying its length, whatever it holds: never TooWild,
\* never Overflow.
C4_TooSmall ==
    (Ran /\ Len(samples) < MIN_SAMPLES) => stats = TooSmall(Len(samples))

\* C4 witness: MIN_SAMPLES - 1 samples that pruning would have cut, and
\* TooSmall all the same.
C4_Witness ==
    /\ stats = TooSmall(MIN_SAMPLES - 1)
    /\ Len(samples) = MIN_SAMPLES - 1
    /\ prune_outliers(AbacusFrom(samples)).len < Len(samples)

\* C5: for a non-empty list of one repeated duration v, the sample set has
\* mean v and deviation 0 and pruning removes nothing; with MIN_SAMPLES or
\* more elements construction is Ok with valid = total, mean v, deviation 0.
C5_UniformList ==
    (Ran /\ Uniform(samples)) =>
        LET v == as_secs_f64(samples[1])
            a == AbacusFrom(samples)
        IN  /\ mean(a) = FromF(v)
            /\ deviation(a) = Sqrt(FromF(0))
            /\ prune_outliers(a) = a
            /\ a.len = Len(samples)
            /\ Len(samples) >= MIN_SAMPLES =>
                  /\ stats.kind = "Ok"
                  /\ stats.total = Len(samples)
                  /\ stats.valid = stats.total
                  /\ stats.mean = FromF(v)
                  /\ stats.deviation = Sqrt(FromF(0))
                  /\ abacus = prior

\* C5 witness: a uniform list, long enough, of a duration that is not zero.
C5_Witness ==
    /\ Uniform(samples)
    /\ Len(samples) >= MIN_SAMPLES
    /\ samples[1] > 0
    /\ stats.kind = "Ok"
    /\ stats.valid = Len(samples)

\* C6: MIN_SAMPLES or more samples of which fewer than MIN_SAMPLES are left
\* after pruning give TooWild, not statistics of the unpruned list.
C6_TooWild ==
    (Ran /\ Len(samples) >= MIN_SAMPLES /\ abacus.len < MIN_SAMPLES) =>
        stats = TooWild

\* C6 witness: pruning took a list of MIN_SAMPLES or more below the floor.
C6_Witness ==
    /\ stats = TooWild
    /\ Len(samples) >= MIN_SAMPLES
    /\ prior.len = Len(samples)
    /\ 0 < abacus.len /\ abacus.len < MIN_SAMPLES

\* C7: for a list of non-negative finite durations construction never
\* returns Overflow: it returns Ok, TooSmall or TooWild.
C7_NoOverflow ==
    Ran => stats.kind \in {"Ok", "TooSmall", "TooWild"}

\* C7 witness: an Ok with a deviation that is not zero.
C7_Witness ==
    /\ stats.kind = "Ok"
    /\ stats.deviation.sq.n > 0
    /\ stats.mean.n > 0

\* C17 as claimed: for k >= MIN_SAMPLES copies of one duration followed by
\* a single longer one, pruning removes exactly the longer one: the result
\* is Ok with total = k + 1, valid = k, the mean that duration and the
\* deviation 0.
C17_OutlierRemoved ==
    LET k == Len(samples) - 1
    IN  (/\ Ran
         /\ k >= MIN_SAMPLES
         /\ Uniform(SubSeq(samples, 1, k))
         /\ samples[k + 1] > samples[1]) =>
            /\ stats.kind = "Ok"
            /\ stats.total = k + 1
            /\ stats.valid = k
            /\ stats.mean = FromF(as_secs_f64(samples[1]))
            /\ stats.deviation = Sqrt(FromF(0))

----------------------------------------------------------------------------
(* Properties of Stats::is_deviant, checked under SpecDeviant.  There the  *)
(* means are whole numbers m (this run) and p (previous run), and the      *)
(* deviation of this run is the root of the whole number s.                *)

Compared == ret.op = "is_deviant"

C9_SignedRelativeChange ==
    (Compared /\ ret.val # None) =>
        LET m == stats.mean.n
            p == other.mean.n
            c == ret.val[1]
        IN  /\ c.sign \in {"+", "-"}
            /\ c.sign = "+" <=> m > p
            /\ c.sign = "-" <=> m < p
            /\ p # 0 => /\ c.ratio.d > 0
                        /\ c.ratio.n * p = Abs(m - p) * c.ratio.d
            /\ p = 0 => c.ratio = [n |-> 1, d |-> 0]

\* C9 witness: a slower run, and a change that is not a whole number.
C9_Witness ==
    /\ Compared
    /\ ret.val # None
    /\ ret.val[1].sign = "+"
    /\ ret.val[1].ratio.d > 1

\* C10 as claimed: a change is reported only when the two means differ by
\* more than one percent of the previous mean and the previous mean lies
\* outside this run's envelope.
C10_MoreThanOnePercent ==
    (Compared /\ ret.val # None) =>
        LET m == stats.mean.n
            p == other.mean.n
            s == stats.deviation.sq.n
        IN  /\ 100 * Abs(m - p) > p
            /\ (p - m) * (p - m) > 4 * s

----------------------------------------------------------------------------
(* Properties of ideal_quantile, checked under SpecIdeal. *)

Idealized == ret.op = "ideal_quantile"

\* phi <= 1.5 * epsilon or phi >= 1 - 1.5 * epsilon, epsilon = 1 / (2 * len):
\* 4 * len * phi <= 3 or 4 * len * phi >= 4 * len - 3.
NearEdge(a, phi) ==
    \/ 4 * a.len * phi.n <= 3 * phi.d
    \/ 4 * a.len * phi.n >= (4 * a.len - 3) * phi.d

\* C11: for phi within 1.5 * epsilon of 0 or of 1, ideal_quantile(phi) is
\* exactly quantile(phi).
C11_EdgeIsQuantile ==
    (Idealized /\ NearEdge(abacus, ret.phi)) =>
        ret.val = quantile(abacus, ret.phi)

\* C11 witness: phi exactly 1.5 * epsilon away from 0, on a set where the
\* smoothing, had it been applied, would have given another number than the
\* quantile.
C11_Witness ==
    /\ Idealized
    /\ abacus.unique >= 2
    /\ 4 * abacus.len * ret.phi.n = 3 * ret.phi.d
    /\ ret.val = quantile(abacus, ret.phi)
    /\ ret.val # 0
    /\ smoothed(ret.val,
                quantile(abacus, QSub(ret.phi, Q(1, 2 * abacus.len))),
                quantile(abacus, QAdd(ret.phi, Q(1, 2 * abacus.len)))) # ret.val

\* The value C12 describes, from q, lo and hi: 2 * val is compared, so that
\* nothing is rounded.
Midway(val, q, lo, hi) ==
    IF q - lo >= 2 * (hi - q) THEN 2 * val = lo + q
    ELSE IF hi - q >= 2 * (q - lo) THEN 2 * val = q + hi
    ELSE val = 0

\* C12 as claimed: with at least two distinct values and phi more than
\* 1.5 * epsilon away from 0 and 1, ideal_quantile(phi) is (lo + q) / 2 when
\* q - lo >= 2 * (hi - q), otherwise (q + hi) / 2 when
\* hi - q >= 2 * (q - lo), otherwise 0.
C12_Smoothed ==
    (Idealized /\ abacus.unique >= 2 /\ ~NearEdge(abacus, ret.phi)) =>
        LET eps == Q(1, 2 * abacus.len)
        IN  Midway(ret.val, quantile(abacus, ret.phi),
                   quantile(abacus, QSub(ret.phi, eps)),
                   quantile(abacus, QAdd(ret.phi, eps)))

\* C12, amended: the same, except that a quantile(phi) of 0 is returned as
\* it is, whatever lo and hi are.
C12_SmoothedUnlessZero ==
    (Idealized /\ abacus.unique >= 2 /\ ~NearEdge(abacus, ret.phi)) =>
        LET eps == Q(1, 2 * abacus.len)
            q == quantile(abacus, ret.phi)
        IN  IF q = 0 THEN ret.val = 0
            ELSE Midway(ret.val, q, quantile(abacus, QSub(ret.phi, eps)),
                        quantile(abacus, QAdd(ret.phi, eps)))

\* C12 witness: a smoothed value that is no quantile: it lies strictly
\* between quantile(phi) and quantile(phi + epsilon).
C12_Witness ==
    /\ Idealized
    /\ abacus.unique >= 2
    /\ ~NearEdge(abacus, ret.phi)
    /\ quantile(abacus, ret.phi) # 0
    /\ quantile(abacus, ret.phi) < ret.val
    /\ ret.val < quantile(abacus, QAdd(ret.phi, Q(1, 2 * abacus.len)))

----------------------------------------------------------------------------
(* Properties of prune_outliers and of the constructor, checked under Spec. *)

\* v lies within the fence built from q1 and q3; doubled, so that the
\* 1.5 * (q3 - q1) is a whole number.
InFence(v, q1, q3) ==
    /\ 2 * q1 - 3 * (q3 - q1) <= 2 * v
    /\ 2 * v <= 2 * q3 + 3 * (q3 - q1)

\* C13: on a set with at least two distinct values and a deviation that is
\* not zero, prune_outliers keeps exactly the samples v with lo <= v <= hi,
\* lo = q1 - 1.5 * (q3 - q1), hi = q3 + 1.5 * (q3 - q1), q1 and q3 the ideal
\* quantiles at 0.05 and 0.95, in their order and unaltered.
C13_RetainsWithinFence ==
    (calls >= 1 /\ prior.unique >= 2 /\ deviation(prior) # Sqrt(FromF(0))) =>
        LET q1 == ideal_quantile(prior, Q(5, 100))
            q3 == ideal_quantile(prior, Q(95, 100))
        IN  abacus.set = SelectSeq(prior.set, LAMBDA v : InFence(v, q1, q3))

\* C13 witness: a run that removed the smallest sample, which lay below lo,
\* and kept several distinct values.
C13_Witness ==
    /\ calls >= 1
    /\ abacus.len < prior.len
    /\ abacus.unique >= 2
    /\ 2 * prior.set[1] < 2 * ideal_quantile(prior, Q(5, 100))
                           - 3 * (ideal_quantile(prior, Q(95, 100))
                                  - ideal_quantile(prior, Q(5, 100)))

\* C14: in every state of a sample set, after construction and after any
\* number of prune_outliers calls, the sequence is sorted ascending, len is
\* the number of elements, unique the number of distinct values and total
\* the sum of the elements.
C14_SortedAndCounted ==
    /\ IsSorted(abacus.set)
    /\ abacus.len = Len(abacus.set)
    /\ abacus.unique = Cardinality(Elems(abacus.set))
    /\ abacus.total = Sum(abacus.set)

\* C14 witness: a run of prune_outliers that changed all three totals.
C14_Witness ==
    /\ calls >= 1
    /\ abacus.len < prior.len
    /\ abacus.unique < prior.unique
    /\ abacus.total < prior.total
    /\ abacus.total = Sum(abacus.set)

\* C16: min() is the smallest and max() the largest sample, mean() is the
\* sum of the samples divided by their number, and all three are 0 for an
\* empty set; on the 24 values of t_set pruning removes nothing, min is 1.0,
\* max is 3.0 and mean is the arithmetic mean of the list (2.05).
C16_MinMaxMean ==
    /\ ret.op = "summary" =>
          IF abacus.set = << >>
          THEN ret.min = 0 /\ ret.max = 0 /\ ret.mean = FromF(0)
          ELSE /\ ret.min \in Elems(abacus.set)
               /\ ret.max \in Elems(abacus.set)
               /\ \A v \in Elems(abacus.set) : ret.min <= v /\ v <= ret.max
               /\ ret.mean.d > 0
               /\ ret.mean.n * Len(abacus.set) = Sum(abacus.set) * ret.mean.d
    /\ (calls >= 1 /\ prior.set = t_set) => abacus = prior
    /\ (ret.op = "summary" /\ abacus.set = t_set) =>
          /\ ret.min = 10 * Unit
          /\ ret.max = 30 * Unit
          /\ ret.mean = Q(Sum(t_set), 24)
          /\ ret.mean = Q(205 * Unit, 10)

\* C16 witness: the summary of t_set, taken after prune_outliers has run.
C16_Witness ==
    /\ ret.op = "summary"
    /\ calls >= 1
    /\ prior.set = t_set
    /\ abacus.len = 24
    /\ ret.min = 10 * Unit /\ ret.max = 30 * Unit
    /\ ret.mean = Q(205 * Unit, 10)

----------------------------------------------------------------------------
(* Properties of the constructor, checked under SpecFrom. *)

Built == ret.op = "from"

\* The number of entries of s that are v.
Count(s, v) == Cardinality({i \in 1..Len(s) : s[i] = v})

\* Every value comes out as often as it went in if keep(v), and not at all
\* otherwise; what comes out is sorted.
KeepsExactly(keep(_)) ==
    /\ IsSorted(abacus.set)
    /\ \A v \in RawVals \cup Elems(abacus.set) :
          Count(abacus.set, v) = IF keep(v) THEN Count(samples, v) ELSE 0

\* C15 as claimed: the constructor keeps exactly the values that are
\* non-negative and finite (-0.0 read as negative), with their
\* multiplicities, sorted ascending.
C15_KeepsNonNegativeFinite ==
    Built => KeepsExactly(LAMBDA v : v >= 0 /\ v # INFINITY /\ v # NAN)

\* C15, amended: the constructor keeps exactly the values that are +0.0 or
\* positive and normal, with their multiplicities, sorted ascending: a
\* positive subnormal value is dropped like a negative one.
C15_KeepsZeroAndNormal ==
    Built => KeepsExactly(LAMBDA v : v = 0 \/ (v >= MIN_POSITIVE /\ v # INFINITY /\ v # NAN))

\* C15 witness: a list given out of order, with a repeated value, from
\* which a subnormal value was dropped.
C15_Witness ==
    /\ Built
    /\ ~IsSorted(samples)
    /\ abacus.len = 2 /\ abacus.unique = 1
    /\ Count(samples, SUBNORMAL) = 1

----------------------------------------------------------------------------
(* Properties of the history file, checked under SpecStore. *)

Loaded == ret.op = "load"

\* The file is as History::save wrote it.
Undamaged == storage = File(serialize(history))

\* The places of a label that hold something other than white space.
Inked(lbl) == {i \in 1..Len(lbl) : lbl[i] # SP}

\* A label from its first place that is not white space to its last.
Bare(lbl) ==
    IF Inked(lbl) = {} THEN << >>
    ELSE SubSeq(lbl,
                CHOOSE i \in Inked(lbl) : \A j \in Inked(lbl) : i <= j,
                CHOOSE i \in Inked(lbl) : \A j \in Inked(lbl) : j <= i)

\* The keys of h that are written before k, or are k.
UpTo(h, k) == {o \in DOMAIN h : o = k \/ StrLt(o, k)}

\* The keys of h with a valid Stats that come back as the label t.
ValidAs(h, t) == {k \in DOMAIN h : Bare(k) = t /\ is_valid(h[k])}

\* The last of a non-empty set of keys, in the order of the map.
LastKey(keys) == CHOOSE k \in keys : \A o \in keys \ {k} : StrLt(o, k)

EntrySize(k) == 2 + Len(k) + 4 + 4 + 8 + 8

RECURSIVE SizeOf(_)
SizeOf(keys) ==
    IF keys = {} THEN 0
    ELSE EntrySize(LastKey(keys)) + SizeOf(keys \ {LastKey(keys)})

\* The lengths at which the file as saved ends with a whole entry, or with
\* the header.
Boundaries(h) ==
    {Len(MAGIC)} \cup {Len(MAGIC) + SizeOf(UpTo(h, k)) : k \in DOMAIN h}

LacksMagic(bytes) ==
    Len(bytes) < Len(MAGIC) \/ SubSeq(bytes, 1, Len(MAGIC)) # MAGIC

\* The file has the header and ends in the middle of an entry.
MidEntry ==
    /\ storage.kind = "file"
    /\ ~LacksMagic(storage.bytes)
    /\ Len(storage.bytes) < Len(serialize(history))
    /\ storage.bytes = SubSeq(serialize(history), 1, Len(storage.bytes))
    /\ Len(storage.bytes) \notin Boundaries(history)

\* C19: loading from a file that is missing or unreadable, lacks the magic
\* header or ends in the middle of an entry gives an empty History and no
\* error: load_history is None and History::default falls back to the empty
\* map, also when entries before the cut were whole and valid.
C19_DamagedIsEmpty ==
    (/\ Loaded
     /\ \/ storage.kind \in {"missing", "unreadable"}
        \/ (storage.kind = "file" /\ LacksMagic(storage.bytes))
        \/ MidEntry) =>
        /\ ret.val = NoHistory
        /\ ret.none

\* C19 witness: the file ends in the middle of its second entry, the first
\* one being whole, valid and under a label that is not empty.
C19_Witness ==
    /\ Loaded
    /\ MidEntry
    /\ ret.val = NoHistory
    /\ \E k \in DOMAIN history :
          /\ Bare(k) # << >> /\ is_valid(history[k])
          /\ Len(MAGIC) + SizeOf(UpTo(history, k)) < Len(storage.bytes)

----------------------------------------------------------------------------
(* Properties of History::get and History::insert, checked under
   SpecHistory. *)

\* The places of the inserts for a name.
InsertsOf(name) == {i \in 1..Len(inserted) : inserted[i].key = name}

\* What get is to return for a name: the Stats of the most recent insert
\* for it, else what was loaded for it, else None.
Latest(name) ==
    IF InsertsOf(name) # {}
    THEN Some(inserted[CHOOSE i \in InsertsOf(name) :
                           \A j \in InsertsOf(name) : j <= i].v)
    ELSE IF storage.kind = "file"
            /\ \E st \in HistStats :
                  /\ is_valid(st)
                  /\ storage.bytes = serialize([k \in {name} |-> st])
         THEN Some(CHOOSE st \in HistStats :
                     storage.bytes = serialize([k \in {name} |-> st]))
         ELSE None

\* C20: after any sequence of inserts, get(name) is the Stats of the most
\* recent insert for that name, else the Stats loaded for it, else None;
\* so an insert for one name leaves the record of every other name as it
\* was.
C20_GetIsLatest ==
    /\ \A name \in BenchNames : get(history, name) = Latest(name)
    /\ ret.op = "get" => ret.val = Latest(ret.key)

\* C20 witness: a name was inserted twice with different Stats and get
\* returned the second; another name, loaded and never inserted, kept the
\* record it was loaded with.
C20_Witness ==
    /\ ret.op = "get"
    /\ Len(inserted) = 2
    /\ inserted[1].key = ret.key /\ inserted[2].key = ret.key
    /\ inserted[1].v # inserted[2].v
    /\ ret.val = Some(inserted[2].v)
    /\ \E name \in BenchNames \ {ret.key} :
          /\ InsertsOf(name) = {}
          /\ get(history, name) # None
          /\ get(history, name) = get(HistoryDefault(storage), name)

----------------------------------------------------------------------------
(* Properties of the search of quantile, checked under SpecClimb. *)

Queried == ret.op = "quantile"

\* The target rank of quantile: (phi * len).round().
Rank(a, phi) == round_usize(QMul(phi, f_len(a)))

\* quantile gets as far as its search around set[target].
Interior(a, phi) ==
    /\ QLt(FromF(0), phi) /\ QLt(phi, FromF(1))
    /\ 1 < a.unique
    /\ 0 < Rank(a, phi) /\ Rank(a, phi) < a.len - 1

\* Twice the symmetry score of the value v for the rank r: how far the
\* numbers of samples below and above v are from r and len - 1 - r.
Score2(a, v, r) ==
    Abs(Cardinality({i \in 1..a.len : a.set[i] < v}) - r)
    + Abs(Cardinality({i \in 1..a.len : a.set[i] > v}) - (a.len - 1 - r))

\* The distinct values from v to w.
Between(a, v, w) == {u \in Elems(a.set) : v <= u /\ u <= w}

\* The next distinct value above u, and the next below.
Succ(a, u) == CHOOSE w \in Elems(a.set) : w > u /\ Between(a, u, w) = {u, w}

Pred(a, u) == CHOOSE w \in Elems(a.set) : w < u /\ Between(a, w, u) = {w, u}

\* The values a walk down from x visits while the score strictly improves
\* from each value to the next, and the same for a walk up.
VisitedDown(a, x, r) ==
    {v \in Elems(a.set) : v < x /\ \A u \in Between(a, v, x) \ {x} :
                                      Score2(a, u, r) < Score2(a, Succ(a, u), r)}

VisitedUp(a, x, r) ==
    {v \in Elems(a.set) : v > x /\ \A u \in Between(a, x, v) \ {x} :
                                      Score2(a, u, r) < Score2(a, Pred(a, u), r)}

Visited(a, x, r) == {x} \cup VisitedDown(a, x, r) \cup VisitedUp(a, x, r)

\* C26: for an interior phi whose rank r is interior, quantile returns one
\* of the value at rank r and the values visited walking down and up from
\* it while the score strictly improves, none of them has a lower score,
\* and it is the value at rank r when none has a strictly lower score than
\* that one.
C26_BestVisited ==
    (Queried /\ Interior(abacus, ret.phi)) =>
        LET r == Rank(abacus, ret.phi)
            x == At(abacus, r)
        IN  /\ ret.val \in Visited(abacus, x, r)
            /\ \A v \in Visited(abacus, x, r) :
                   Score2(abacus, ret.val, r) <= Score2(abacus, v, r)
            /\ (\A v \in Visited(abacus, x, r) :
                   Score2(abacus, v, r) >= Score2(abacus, x, r)) => ret.val = x

\* C26 witness: the walk up found a value with a lower score than the
\* value at the rank, and quantile returned it.
C26_Witness ==
    /\ Queried /\ Interior(abacus, ret.phi)
    /\ ret.val > At(abacus, Rank(abacus, ret.phi))
    /\ Score2(abacus, ret.val, Rank(abacus, ret.phi))
         < Score2(abacus, At(abacus, Rank(abacus, ret.phi)), Rank(abacus, ret.phi))
    /\ VisitedDown(abacus, At(abacus, Rank(abacus, ret.phi)),
                   Rank(abacus, ret.phi)) = {}

\* The quarter rank after phi.
NextRank(a, phi) == QAdd(phi, Q(1, 4 * a.len))

\* C27: quantile does not decrease as phi grows.  From every quarter rank
\* to the next the quantile is no smaller, so that it is no smaller from
\* any phi in 0..1 to any larger one: the ranks clamped to min and max and
\* the steps of the search are all met on the way.
C27_Monotone ==
    (Queried /\ ~is_empty(abacus)) =>
        ret.val <= quantile(abacus, NextRank(abacus, ret.phi))

\* C27 witness: the search moved up from the rank of phi, and down from
\* the rank of a larger phi, to one and the same value.
C27_Witness ==
    /\ Queried /\ Interior(abacus, ret.phi)
    /\ ret.val > At(abacus, Rank(abacus, ret.phi))
    /\ \E phi2 \in QuarterRanks(abacus) :
          /\ QLt(ret.phi, phi2) /\ Interior(abacus, phi2)
          /\ quantile(abacus, phi2) < At(abacus, Rank(abacus, phi2))
          /\ quantile(abacus, phi2) = ret.val

\* C30: the search of quantile ends at most one distinct value away from
\* the value at the rank: the walk down and the walk up take at most one
\* step each and never both move, and no distinct value of the set has a
\* lower score than the value returned.
C30_OneStepGlobalBest ==
    (Queried /\ Interior(abacus, ret.phi)) =>
        LET r == Rank(abacus, ret.phi)
            x == At(abacus, r)
            first == [out |-> x, diff |-> score(abacus, x, r, abacus.len - (r + 1))]
            down == walk_down(abacus, x, first, r, abacus.len - (r + 1))
            up == walk_up(abacus, x, down, r, abacus.len - (r + 1))
        IN  /\ Between(abacus, ret.val, x) \cup Between(abacus, x, ret.val)
                 \subseteq {x, ret.val}
            /\ down.out # x => Between(abacus, down.out, x) = {down.out, x}
            /\ up.out # down.out => Between(abacus, x, up.out) = {x, up.out}
            /\ ~(down.out # x /\ up.out # down.out)
            /\ \A v \in Elems(abacus.set) :
                   Score2(abacus, ret.val, r) <= Score2(abacus, v, r)

\* C30 witness: the walk down moved one step, the walk up did not move,
\* in a set of four distinct values.
C30_Witness ==
    /\ Queried /\ Interior(abacus, ret.phi)
    /\ abacus.unique = 4
    /\ ret.val = Pred(abacus, At(abacus, Rank(abacus, ret.phi)))
    /\ Score2(abacus, ret.val, Rank(abacus, ret.phi))
         < Score2(abacus, At(abacus, Rank(abacus, ret.phi)), Rank(abacus, ret.phi))
    /\ ret.val > min(abacus)

----------------------------------------------------------------------------
(* Properties of ideal_quantile, checked under SpecClimb. *)

\* epsilon of ideal_quantile: 1.0 / (2.0 * len).
Epsilon(a) == Q(1, 2 * a.len)

\* The locals lo and hi of ideal_quantile, for any phi.
Lo(a, phi) == quantile(a, QSub(phi, Epsilon(a)))

Hi(a, phi) == quantile(a, QAdd(phi, Epsilon(a)))

\* C28: the final `else 0.0` of ideal_quantile is never taken: for every
\* sample set and phi, quantile(phi - epsilon), quantile(phi) and
\* quantile(phi + epsilon) are at most two distinct values, in this order,
\* one of the two tests before the else holds, and ideal_quantile(phi)
\* lies between quantile(phi - epsilon) and quantile(phi + epsilon), and
\* between min() and max().
C28_NoZeroFallback ==
    (Idealized /\ ~is_empty(abacus)) =>
        LET lo == Lo(abacus, ret.phi)
            q == quantile(abacus, ret.phi)
            hi == Hi(abacus, ret.phi)
        IN  /\ Cardinality({lo, q, hi}) <= 2
            /\ lo <= q /\ q <= hi
            /\ q - lo >= (hi - q) * 2 \/ hi - q >= (q - lo) * 2
            /\ lo <= ret.val /\ ret.val <= hi
            /\ min(abacus) <= ret.val /\ ret.val <= max(abacus)

\* C28 witness: phi is away from the edges, quantile(phi) is not 0.0 and
\* differs from quantile(phi + epsilon): ideal_quantile is half way
\* between the two, and not 0.0.
C28_Witness ==
    /\ Idealized /\ ~is_empty(abacus)
    /\ ~NearEdge(abacus, ret.phi)
    /\ quantile(abacus, ret.phi) # 0
    /\ Lo(abacus, ret.phi) = quantile(abacus, ret.phi)
    /\ quantile(abacus, ret.phi) < Hi(abacus, ret.phi)
    /\ 2 * ret.val = quantile(abacus, ret.phi) + Hi(abacus, ret.phi)

----------------------------------------------------------------------------
(* Properties of the fence of prune_outliers, checked under SpecPrune. *)

\* prune_outliers has just returned: prior is the set it was called on.
Pruned == calls > 0 /\ ret = NoRet

\* prune_outliers got past its guard on the set it was called on.
Fenced == Pruned /\ 1 < prior.unique /\ RootIsPositive(deviation(prior))

----------------------------------------------------------------------------
(* Properties of Benches::push and Benches::finish, checked under
   SpecBenches. *)

\* finish ran on a collection that is not empty.
Reported == ret.op = "finish" /\ benches # << >>

\* The benchmark has Ok stats.
IsOk(b) == b.stats # None /\ b.stats[1].kind = "Ok"

\* The error of a benchmark that is neither a spacer nor Ok.
Failure(b) == IF b.stats = None THEN NoRun ELSE b.stats[1]

\* The row of the i-th benchmark: the Table starts with a header and a
\* spacer.
RowOf(i) == ret.summary[i + 2]

\* C21: when finish runs on a collection that is not empty, every pushed
\* entry has exactly one row, in push order: a spacer row for a spacer, a
\* numeric row for Ok stats, an error row with the error (NoRun when never
\* run) for any other; a benchmark that failed with TooSmall, TooWild,
\* Overflow or DupeName does not keep the rows of the others from being
\* built.
C21_OneRowEach ==
    Reported =>
        /\ Len(ret.summary) = Len(benches) + 2
        /\ \A i \in 1..Len(benches) :
              IF benches[i].name = << >> THEN RowOf(i).row = "Spacer"
              ELSE IF IsOk(benches[i])
              THEN /\ RowOf(i).row = "Normal"
                   /\ RowOf(i).name.name = benches[i].name
                   /\ RowOf(i).time.secs = benches[i].stats[1].mean
              ELSE /\ RowOf(i).row = "Error"
                   /\ RowOf(i).name.name = benches[i].name
                   /\ RowOf(i).e = Failure(benches[i])

\* C21 witness: a benchmark that failed with TooSmall, its duplicate and a
\* benchmark with Ok stats, each with its row.
C21_Witness ==
    /\ Reported
    /\ Len(benches) = 3
    /\ benches[1].stats = Some(TooSmall(1))
    /\ benches[2].stats = Some(DupeName)
    /\ IsOk(benches[3])
    /\ RowOf(1).row = "Error" /\ RowOf(2).row = "Error"
    /\ RowOf(3).row = "Normal"

\* The record of the earlier run under a name, as the file held it when
\* finish began.
Previous(name) ==
    IF /\ ret.before.kind = "file"
       /\ \E keys \in SUBSET PushNames :
             /\ name \in keys
             /\ ret.before.bytes = serialize([k \in keys |-> Earlier])
    THEN Some(Earlier)
    ELSE None

\* C22: the change of every numeric row is computed against the record of
\* the previous run, as the file held it when finish began: "---" when
\* there is none, else what is_deviant says of this run's Stats against
\* it.  No Stats of this run is in the history the rows are built from.
C22_AgainstPreviousRun ==
    Reported =>
        \A i \in 1..Len(benches) :
            (benches[i].name # << >> /\ IsOk(benches[i])) =>
                RowOf(i).diff =
                    IF Previous(benches[i].name) = None THEN NO_CHANGE
                    ELSE IF is_deviant(benches[i].stats[1], Earlier) = None
                    THEN NO_CHANGE
                    ELSE is_deviant(benches[i].stats[1], Earlier)[1]

\* C22 witness: a benchmark twice as slow as in the previous run is
\* reported with its change, and the history holds its new Stats.
C22_Witness ==
    /\ Reported
    /\ \E i \in 1..Len(benches) :
          /\ IsOk(benches[i])
          /\ Previous(benches[i].name) # None
          /\ RowOf(i).row = "Normal"
          /\ RowOf(i).diff # NO_CHANGE
          /\ RowOf(i).diff.sign = "+"
          /\ get(history, benches[i].name) = Some(ok_stats(benches[i].stats[1]))

\* The inserts finish is to make: one for every benchmark with Ok stats,
\* under its name, in push order.
RECURSIVE OkInserts(_)
OkInserts(bs) ==
    IF bs = << >> THEN << >>
    ELSE IF IsOk(Head(bs))
    THEN <<[key |-> Head(bs).name, v |-> ok_stats(Head(bs).stats[1])]>>
         \o OkInserts(Tail(bs))
    ELSE OkInserts(Tail(bs))

\* The history after finish is what is_saved: the file holds it, unless
\* there is no path to a file.
SavedLast ==
    \/ ret.before = Disabled /\ storage = Disabled
    \/ ret.before # Disabled /\ storage = File(serialize(history))

\* C23 as claimed: finish inserts exactly the benchmarks with Ok stats,
\* under their names, and then saves; the record stored under the name of
\* a benchmark that failed, was never run, is a duplicate or is a spacer is
\* left as it was.
C23_OthersUnchanged ==
    Reported =>
        /\ inserted = OkInserts(benches)
        /\ SavedLast
        /\ \A i \in 1..Len(benches) :
              ~IsOk(benches[i]) =>
                  get(history, benches[i].name) = Previous(benches[i].name)

\* C23, amended: finish inserts exactly the benchmarks with Ok stats, under
\* their names, and then saves.  The record stored under the name of a
\* benchmark that is not Ok is left as it was unless a benchmark with Ok
\* stats has the same name, as the first of a duplicated name can: then
\* the record is that benchmark's Stats.
C23_InsertsOkOnly ==
    Reported =>
        /\ inserted = OkInserts(benches)
        /\ SavedLast
        /\ \A i \in 1..Len(benches) :
              IF \E j \in 1..Len(benches) :
                    IsOk(benches[j]) /\ benches[j].name = benches[i].name
              THEN \E j \in 1..Len(benches) :
                    /\ IsOk(benches[j]) /\ benches[j].name = benches[i].name
                    /\ get(history, benches[i].name)
                         = Some(ok_stats(benches[j].stats[1]))
              ELSE get(history, benches[i].name) = Previous(benches[i].name)

\* C23 witness: one benchmark with Ok stats was inserted and saved, and a
\* failed one with another name kept the record of the earlier run.
C23_Witness ==
    /\ Reported
    /\ Len(inserted) = 1
    /\ storage = File(serialize(history))
    /\ \E i \in 1..Len(benches) :
          /\ benches[i].stats = Some(TooWild)
          /\ Previous(benches[i].name) # None
          /\ get(history, benches[i].name) = Some(Earlier)
          /\ inserted[1].key # benches[i].name
          /\ get(history, inserted[1].key) = Some(inserted[1].v)
          /\ inserted[1].v # Earlier

\* C25: after any sequence of pushes, of the benchmarks of one name only
\* the first keeps its own stats: a push of a name that is already there
\* stores the benchmark with Err(DupeName), any other push stores it as it
\* is, the benchmarks pushed before are untouched, and a spacer is never
\* marked.
C25_DupesMarked ==
    /\ ret.op = "push" =>
          /\ Len(benches) = Len(ret.before) + 1
          /\ SubSeq(benches, 1, Len(ret.before)) = ret.before
          /\ benches[Len(benches)] =
                IF /\ ret.b.name # << >>
                   /\ \E i \in 1..Len(ret.before) :
                         ret.before[i].name = ret.b.name
                THEN [name |-> ret.b.name, stats |-> Some(DupeName)]
                ELSE ret.b
    /\ \A i, j \in 1..Len(benches) :
          (i < j /\ benches[i].name = benches[j].name) =>
              benches[j].stats = IF benches[j].name = << >> THEN None
                                 ELSE Some(DupeName)

\* C25 witness: a benchmark pushed with Ok stats under a name that is
\* there was stored with DupeName, the first of that name still has its
\* Ok stats, and two spacers are as they were pushed.
C25_Witness ==
    /\ ret.op = "push"
    /\ IsOk(ret.b)
    /\ benches[Len(benches)].stats = Some(DupeName)
    /\ \E i \in 1..Len(ret.before) :
          benches[i].name = ret.b.name /\ IsOk(benches[i])

----------------------------------------------------------------------------
(* Properties of Bench::run, checked under SpecRun. *)

\* run has returned, on a Bench that is not a spacer.
Returned == ret.op = "run" /\ bench.name # << >>

\* What run has set the stats to, from samples that are all cb.
StatsSet ==
    IF Len(samples) < MIN_SAMPLES THEN stats = TooSmall(Len(samples))
    ELSE /\ stats.kind = "Ok"
         /\ stats.total = Len(samples) /\ stats.valid = Len(samples)
         /\ stats.mean = FromF(as_secs_f64(bench.cb))

\* C24: a run of a Bench that is not a spacer collects at least one and at
\* most `samples` samples; it stops as soon as the sample limit is reached
\* or, after a sample, the elapsed time has reached the timeout, not
\* before and not later; and it always terminates, with the stats set
\* from the samples collected.
C24_RunCollects ==
    <>[](/\ ret.op = "run"
         /\ Returned =>
               /\ 1 <= Len(samples) /\ Len(samples) <= bench.samples
               /\ Len(samples) = bench.samples \/ bench.timeout <= now
               /\ Len(samples) >= 2 => ret.before < bench.timeout
               /\ StatsSet)

\* C24 witness: the run was stopped by the timeout after more than one
\* sample and before the sample limit, and the stats are TooSmall.
C24_Witness ==
    /\ Returned
    /\ 1 < Len(samples) /\ Len(samples) < bench.samples
    /\ bench.timeout <= now
    /\ stats = TooSmall(Len(samples))

====
